---------------------------- MODULE Spec2Model ----------------------------
(***************************************************************************)
(* A model of the restic exporter: the collector of src/exporter/exporter.py *)
(* (variant "exporter") and the retention fork of src/restic-exporter.py     *)
(* (variant "fork").  One refresh pass is a sequence of blocking calls to    *)
(* the restic command line (the collaborator); every call may fail, and a    *)
(* snapshot listing may return any list of raw records.  The process state   *)
(* is the collector's fields (the flags, the stats cache, the published      *)
(* metrics), the position of the main thread inside a pass and the position  *)
(* of an HTTP thread inside collect.                                         *)
(*                                                                         *)
(* Abstractions.  An ISO-8601 time string is modelled by the number of       *)
(* seconds it denotes (field "time"); the SHA-256 digest is taken as         *)
(* collision free and modelled by the text it digests; the wall-clock        *)
(* "duration" field of the metrics is left out.                              *)
(***************************************************************************)
EXTENDS Integers, Sequences, FiniteSets, TLC

(***************************************************************************)
(* Bounds of the model.                                                    *)
(***************************************************************************)
\* number of refresh passes a run of Spec starts
MaxPasses == 2
\* longest snapshot listing the collaborator returns in a run of Spec
MaxLen == 1
\* longest snapshot listing the collaborator returns in a run of SpecPass
MaxDup == 2
MaxText == 2     \* characters of a `restic list locks` output given to get_locks
MaxDays == 3     \* days with a snapshot in a history given to the retention evaluation

(***************************************************************************)
(* Values.                                                                 *)
(***************************************************************************)
\* Python's None
None == [none |-> TRUE]

\* an integer local of get_metrics that the pass has not bound yet
Unbound == -1

\* the raw records the collaborator may list (decoded JSON objects: a key
\* that is missing from the object is missing from the record)
\* ("time" is [wall |-> the seconds its date and time of day denote,
\*            off  |-> the seconds of its UTC offset]; restic writes offsets
\*  of whole minutes, "+00:01" is off = 60)
RecA1 == [id |-> "s1", short_id |-> "s1", hostname |-> "a", username |-> "",
          paths |-> <<"p">>, time |-> [wall |-> 9, off |-> 0],
          tags |-> <<"SLA">>, program_version |-> "v"]
RecA2 == [id |-> "s2", short_id |-> "s2", hostname |-> "a", username |-> "",
          paths |-> <<"p">>, time |-> [wall |-> 10, off |-> 0],
          tags |-> <<"SLA">>, program_version |-> "v"]
RecB  == [id |-> "s3", short_id |-> "s3", hostname |-> "b", username |-> "",
          paths |-> <<"p">>, time |-> [wall |-> 72, off |-> 60],
          tags |-> <<"manual">>, program_version |-> "v",
          summary |-> [total_bytes_processed |-> 70, total_files_processed |-> 7,
                       backup_start |-> 3, backup_end |-> 5]]

Universe == {RecA1, RecA2, RecB}

\* a record without one of its keys
Without(rec, key) == [name \in DOMAIN rec \ {key} |-> rec[name]]

\* a time string that no parser accepts
BadTime == [text |-> "yesterday"]

\* a time string that dateutil rejects (a UTC offset of six digits) and that
\* strptime with "%Y-%m-%dT%H:%M:%S%z" reads, with the instant strptime gives
RegexTime == [text |-> "2023-01-12T06:59:33+010030", strptime |-> 7]

\* RecA1 as the collaborator may print it with a key missing, with an empty
\* tag list or with a time that does not parse
RawRecords ==
    {RecA1}
    \cup {Without(RecA1, key) :
             key \in {"hostname", "paths", "time", "username", "tags", "program_version"}}
    \cup {[RecA1 EXCEPT !.tags = <<>>], [RecA1 EXCEPT !.time = BadTime]}

\* the listings of a run of SpecRaw: one such record, alone or after RecA1
RawListings ==
    {<<>>} \cup {<<rec>> : rec \in RawRecords} \cup {<<RecA1, rec>> : rec \in RawRecords}

Ids == {r.id : r \in Universe}

RECURSIVE SeqsUpTo(_, _)
SeqsUpTo(S, n) ==
    IF n = 0 THEN {<<>>}
    ELSE LET shorter == SeqsUpTo(S, n - 1)
         IN  shorter \cup {Append(s, x) : s \in {t \in shorter : Len(t) = n - 1}, x \in S}

\* the listings `restic snapshots --json` may print in a run of Spec (one
\* snapshot without a summary, one with) and in a run of SpecPass
Listings == SeqsUpTo({RecA1, RecB}, MaxLen)
LongListings == SeqsUpTo(Universe, MaxDup)


(***************************************************************************)
(* Pure functions of src/exporter/exporter.py.                             *)
(***************************************************************************)
\* dict.get(key, default)
Get(d, key, default) == IF key \in DOMAIN d THEN d[key] ELSE default

\* ",".join(strings)
RECURSIVE JoinComma(_)
JoinComma(strs) ==
    IF Len(strs) = 0 THEN ""
    ELSE IF Len(strs) = 1 THEN strs[1]
    ELSE strs[1] \o "," \o JoinComma(Tail(strs))

\* the text whose digest is the snapshot hash
calc_snapshot_hash(snapshot) ==
    snapshot.hostname \o Get(snapshot, "username", "") \o JoinComma(snapshot.paths)

\* time.mktime(fromisoformat(time).timetuple()): the fields of the date and
\* time of day read as local time (the process runs in UTC); the UTC offset
\* written in the string is not used
calc_snapshot_timestamp(snapshot) == snapshot.time.wall

\* ResticStats with every field "unavailable"
SentinelStats ==
    [total_size |-> -1, total_file_count |-> -1, files_new |-> -1,
     files_changed |-> -1, files_unmodified |-> -1, dirs_new |-> -1,
     dirs_changed |-> -1, dirs_unmodified |-> -1, data_added |-> -1,
     duration |-> -1]

\* a calc_snapshot_stats that finds no summary in any record
CalcStatsNone(snapshot) == None
\* calc_snapshot_stats: None without a summary, else the stats of the summary
calc_snapshot_stats(snapshot) ==
    IF "summary" \notin DOMAIN snapshot THEN None
    ELSE LET summary == snapshot.summary
         IN  [total_size |-> Get(summary, "total_bytes_processed", -1),
              total_file_count |-> Get(summary, "total_files_processed", -1),
              files_new |-> Get(summary, "files_new", -1),
              files_changed |-> Get(summary, "files_changed", -1),
              files_unmodified |-> Get(summary, "files_unmodified", -1),
              dirs_new |-> Get(summary, "dirs_new", -1),
              dirs_changed |-> Get(summary, "dirs_changed", -1),
              dirs_unmodified |-> Get(summary, "dirs_unmodified", -1),
              data_added |-> Get(summary, "data_added", -1),
              duration |-> IF "backup_start" \in DOMAIN summary
                              /\ "backup_end" \in DOMAIN summary
                           THEN summary.backup_end - summary.backup_start
                           ELSE -1]

\* calc_snapshot_hash raises KeyError: snapshot["hostname"], snapshot["paths"]
HashRaises(snapshot) ==
    "hostname" \notin DOMAIN snapshot \/ "paths" \notin DOMAIN snapshot

\* datetime.fromisoformat accepts the time string
TimeParses(time) == "wall" \in DOMAIN time

\* one iteration of the loop of get_latest_snapshots raises: the hash, then
\* snapshot["time"] and fromisoformat, then the keys read without a default
NormalizeRaises(snap_data) ==
    \/ HashRaises(snap_data)
    \/ "time" \notin DOMAIN snap_data
    \/ ~TimeParses(snap_data.time)
    \/ "id" \notin DOMAIN snap_data
    \/ "short_id" \notin DOMAIN snap_data

\* the ResticSnapshot built from one raw record
ResticSnapshot(snap_data) ==
    [time |-> snap_data.time,
     hostname |-> snap_data.hostname,
     username |-> Get(snap_data, "username", ""),
     paths |-> Get(snap_data, "paths", <<>>),
     id |-> snap_data.id,
     short_id |-> snap_data.short_id,
     tags |-> Get(snap_data, "tags", <<>>),
     program_version |-> Get(snap_data, "program_version", ""),
     hash |-> calc_snapshot_hash(snap_data),
     timestamp |-> calc_snapshot_timestamp(snap_data),
     stats |-> calc_snapshot_stats(snap_data)]

\* get_latest_snapshots, after the listing returned
RECURSIVE NormalizeAll(_)
NormalizeAll(snapshots_data) ==
    IF snapshots_data = <<>> THEN <<>>
    ELSE <<ResticSnapshot(Head(snapshots_data))>> \o NormalizeAll(Tail(snapshots_data))

(***************************************************************************)
(* Dictionaries are sequences of [k, v] entries in insertion order, as a   *)
(* Python dict keeps them.                                                 *)
(***************************************************************************)
Keys(dict) == {dict[i].k : i \in DOMAIN dict}
Lookup(dict, key) == dict[CHOOSE i \in DOMAIN dict : dict[i].k = key].v
Store(dict, key, value) ==
    IF key \in Keys(dict)
    THEN [i \in DOMAIN dict |-> IF dict[i].k = key THEN [k |-> key, v |-> value] ELSE dict[i]]
    ELSE Append(dict, [k |-> key, v |-> value])
Values(dict) == [i \in DOMAIN dict |-> dict[i].v]

\* a counting loop that sets the count to 1 for a hash it has seen before
CountOneStuck(counter, snapshot_hash) == Store(counter, snapshot_hash, 1)
\* one iteration of the counting loop of get_snapshots_counters
CountOne(counter, snapshot_hash) ==
    IF snapshot_hash \notin Keys(counter)
    THEN Store(counter, snapshot_hash, 1)
    ELSE Store(counter, snapshot_hash, Lookup(counter, snapshot_hash) + 1)

\* get_snapshots_counters, after the listing returned
RECURSIVE CountFrom(_, _)
CountFrom(counter, snapshots_data) ==
    IF snapshots_data = <<>> THEN counter
    ELSE CountFrom(CountOne(counter, calc_snapshot_hash(Head(snapshots_data))),
                   Tail(snapshots_data))
get_snapshots_counters(snapshots_data) == CountFrom(<<>>, snapshots_data)

\* a replacement test that also replaces on equal timestamps
ReplacesOnTie(snap, kept) == snap.timestamp >= kept.timestamp
\* the replacement test of the deduplication loop of get_metrics
Replaces(snap, kept) == snap.timestamp > kept.timestamp

\* one iteration of the deduplication loop of get_metrics
DedupOne(latest_snapshots, snap) ==
    IF snap.hash \notin Keys(latest_snapshots)
       \/ Replaces(snap, Lookup(latest_snapshots, snap.hash))
    THEN Store(latest_snapshots, snap.hash, snap)
    ELSE latest_snapshots

RECURSIVE DedupFrom(_, _)
DedupFrom(latest_snapshots, latest_snapshots_dup) ==
    IF latest_snapshots_dup = <<>> THEN latest_snapshots
    ELSE DedupFrom(DedupOne(latest_snapshots, Head(latest_snapshots_dup)),
                   Tail(latest_snapshots_dup))
\* a loop that keeps every snapshot of the latest listing, same hash or not
LatestNoDedup(latest_snapshots_dup) ==
    [i \in DOMAIN latest_snapshots_dup |->
        [k |-> latest_snapshots_dup[i].hash, v |-> latest_snapshots_dup[i]]]
\* the deduplication loop of get_metrics
LatestPerHash(latest_snapshots_dup) == DedupFrom(<<>>, latest_snapshots_dup)

\* the ResticClient of one deduplicated snapshot
ResticClient(snap, stats, snapshots_total) ==
    [hostname |-> snap.hostname,
     username |-> snap.username,
     version |-> snap.program_version,
     snapshot_hash |-> snap.hash,
     snapshot_tag |-> IF snap.tags # <<>> THEN snap.tags[1] ELSE "",
     snapshot_tags |-> JoinComma(snap.tags),
     timestamp |-> snap.timestamp,
     snapshots_total |-> snapshots_total,
     stats |-> stats]

\* what `restic stats --json <id>` prints for a snapshot
StatsData(snapshot_id) ==
    [total_size |-> IF snapshot_id = "s1" THEN 11 ELSE IF snapshot_id = "s2" THEN 22 ELSE 33,
     total_file_count |-> IF snapshot_id = "s1" THEN 1 ELSE IF snapshot_id = "s2" THEN 2 ELSE 3]

\* the ResticStats get_stats_legacy builds from the output of the stats command
LegacyStats(stats_data) ==
    [SentinelStats EXCEPT !.total_size = stats_data.total_size,
                          !.total_file_count = stats_data.total_file_count]

\* ResticGlobalStats with every field "unavailable"
SentinelGlobalStats ==
    [total_size |-> -1, total_uncompressed_size |-> -1, compression_ratio |-> -1,
     total_blob_count |-> -1, total_snapshots_count |-> -1]

\* what `restic stats --json --mode raw-data` prints
GlobalStatsData ==
    [total_size |-> 40, total_uncompressed_size |-> 80, compression_ratio |-> 2,
     total_blob_count |-> 6, snapshots_count |-> 3]

GlobalStats(stats_data) ==
    [total_size |-> stats_data.total_size,
     total_uncompressed_size |-> stats_data.total_uncompressed_size,
     compression_ratio |-> stats_data.compression_ratio,
     total_blob_count |-> stats_data.total_blob_count,
     total_snapshots_count |-> stats_data.snapshots_count]

(***************************************************************************)
(* The text `restic list locks` prints: a sequence of characters.          *)
(***************************************************************************)
NL == "\n"

\* text.split("\n"), the text ending the last line included
RECURSIVE SplitFrom(_, _, _)
SplitFrom(text, i, line) ==
    IF i > Len(text) THEN <<line>>
    ELSE IF text[i] = NL THEN <<line>> \o SplitFrom(text, i + 1, <<>>)
    ELSE SplitFrom(text, i + 1, Append(line, text[i]))
SplitLines(text) == SplitFrom(text, 1, <<>>)

LowerOrDigit ==
    {"a", "b", "c", "d", "e", "f", "g", "h", "i", "j", "k", "l", "m", "n", "o",
     "p", "q", "r", "s", "t", "u", "v", "w", "x", "y", "z",
     "0", "1", "2", "3", "4", "5", "6", "7", "8", "9"}

\* re.match("^[a-z0-9]+$", line), for a line without line breaks
MatchesLock(line) == Len(line) > 0 /\ \A i \in DOMAIN line : line[i] \in LowerOrDigit

\* the counting loop of get_locks
RECURSIVE CountLocks(_)
CountLocks(lines) ==
    IF lines = <<>> THEN 0
    ELSE (IF MatchesLock(Head(lines)) THEN 1 ELSE 0) + CountLocks(Tail(lines))
get_locks(text_result) == CountLocks(SplitLines(text_result))

\* what `restic list locks` may print
LockOutputs == { <<"a", "1", NL, "b", NL>> }

(***************************************************************************)
(* Pure functions of src/restic-exporter.py.                               *)
(***************************************************************************)
\* d[key] = value, the other keys kept
WithKey(d, key, value) ==
    [k \in DOMAIN d \cup {key} |-> IF k = key THEN value ELSE d[k]]

\* the text whose digest is the snapshot hash; the record has its username
calc_snapshot_hash_fork(snapshot) ==
    snapshot.hostname \o snapshot.username \o JoinComma(snapshot.paths)

\* calc_snapshot_hash of the fork raises KeyError: snapshot["hostname"],
\* snapshot["paths"] (the username has been defaulted before the call)
ForkHashRaises(snapshot) ==
    "hostname" \notin DOMAIN snapshot \/ "paths" \notin DOMAIN snapshot

\* the loop of get_snapshots over the decoded listing: username defaulted,
\* hash added
ForkSnapshot(snap) ==
    LET named == IF "username" \notin DOMAIN snap THEN WithKey(snap, "username", "")
                 ELSE snap
    IN  WithKey(named, "hash", calc_snapshot_hash_fork(named))

RECURSIVE ForkSnapshots(_)
ForkSnapshots(snapshots) ==
    IF snapshots = <<>> THEN <<>>
    ELSE <<ForkSnapshot(Head(snapshots))>> \o ForkSnapshots(Tail(snapshots))

\* str(n) of a whole number, as the sequence of its characters' code points
RECURSIVE Digits(_)
Digits(n) == IF n < 10 THEN <<48 + n>> ELSE Digits(n \div 10) \o <<48 + (n % 10)>>
PyStr(n) == IF n < 0 THEN <<45>> \o Digits(-n) ELSE Digits(n)

\* a > b for two Python strings: the order of the first differing code
\* point, a proper prefix being smaller
StrGreater(a, b) ==
    \/ \E i \in 1..Len(a) :
         /\ i <= Len(b)
         /\ \A j \in 1..(i - 1) : a[j] = b[j]
         /\ a[i] > b[i]
    \/ /\ Len(a) > Len(b)
       /\ \A j \in 1..Len(b) : a[j] = b[j]

\* _parse_timestamp raises: on a time string dateutil does not parse (one
\* that is no date, or one whose UTC offset is not a whole number of
\* minutes), the except branch reads the undefined name snap (NameError) and
\* the finally clause calls round(None) (TypeError)
ForkTimeRaises(snap) ==
    \/ "time" \notin DOMAIN snap
    \/ "wall" \notin DOMAIN snap.time
    \/ snap.time.off % 60 # 0

\* the exception of snap["time"] and _parse_timestamp
ForkTimeError(snap) == IF "time" \notin DOMAIN snap THEN "KeyError" ELSE "TypeError"

\* the exception of get_snapshots and of the timestamps of the deduplication
\* loop on a latest listing with a record that raises
ForkLatestError(snapshots) ==
    IF \E i \in DOMAIN snapshots : ForkHashRaises(snapshots[i]) THEN "KeyError"
    ELSE LET first == CHOOSE i \in DOMAIN snapshots :
                          /\ ForkTimeRaises(snapshots[i])
                          /\ \A j \in 1..(i - 1) : ~ForkTimeRaises(snapshots[j])
         IN  ForkTimeError(snapshots[first])

\* _parse_timestamp, for a time string dateutil parses: the instant in
\* seconds since the epoch, rounded, as a string
parse_timestamp(timestamp) == PyStr(timestamp.wall - timestamp.off)

\* _parse_timestamp called on a time string: what it returns, or the
\* exception it ends with.  When dateutil rejects the string, the except
\* branch fails on the name snap before it reaches strptime, whatever
\* strptime would have read, and the return of the finally clause replaces
\* that failure by the TypeError of round(None)
ParseTimestampOutcome(timestamp) ==
    IF "wall" \in DOMAIN timestamp /\ timestamp.off % 60 = 0
    THEN [returned |-> parse_timestamp(timestamp)]
    ELSE [raised |-> "TypeError"]

\* the tag counting loop of _parse_metrics for one snapshot
RECURSIVE CountTags(_, _)
CountTags(counter, tags) ==
    IF tags = <<>> THEN counter
    ELSE CountTags(CountOne(counter, Head(tags)), Tail(tags))

\* the snapshot_stats entry of one snapshot of the history
SnapshotStatsEntry(snap, snap_stats) ==
    [snapshot_tag |-> snap.tags[1],
     snapshot_timestamp |-> parse_timestamp(snap.time),
     total_size |-> Get(snap_stats, "total_size", 0),
     total_file_count |-> Get(snap_stats, "total_file_count", 0)]

\* the latest listing with the timestamp of every snapshot set
RECURSIVE ForkTimestamps(_)
ForkTimestamps(snapshots) ==
    IF snapshots = <<>> THEN <<>>
    ELSE <<WithKey(Head(snapshots), "timestamp", parse_timestamp(Head(snapshots).time))>>
         \o ForkTimestamps(Tail(snapshots))

\* the replacement test of the deduplication loop of _parse_metrics: the
\* timestamps are strings
ForkReplaces(snap, kept) == StrGreater(snap.timestamp, kept.timestamp)

\* one iteration of the deduplication loop of _parse_metrics
ForkDedupOne(latest, snap) ==
    IF snap.hash \notin Keys(latest) \/ ForkReplaces(snap, Lookup(latest, snap.hash))
    THEN Store(latest, snap.hash, snap)
    ELSE latest

RECURSIVE ForkDedupFrom(_, _)
ForkDedupFrom(latest, dup) ==
    IF dup = <<>> THEN latest
    ELSE ForkDedupFrom(ForkDedupOne(latest, Head(dup)), Tail(dup))
ForkLatestPerHash(dup) == ForkDedupFrom(<<>>, dup)

\* the "no-stats" value of the client loop of _parse_metrics
ForkSentinelStats == [total_size |-> -1, total_file_count |-> -1]

\* the client entry of one deduplicated snapshot
ForkClient(storagebox, snap, stats, snapshots_total) ==
    [storagebox |-> IF storagebox = "" THEN "local" ELSE storagebox,
     hostname |-> snap.hostname,
     username |-> snap.username,
     version |-> IF "program_version" \in DOMAIN snap THEN snap.program_version ELSE "",
     snapshot_hash |-> snap.hash,
     snapshot_tag |-> IF "tags" \in DOMAIN snap THEN snap.tags[1] ELSE "",
     timestamp |-> snap.timestamp,
     size_total |-> stats.total_size,
     files_total |-> stats.total_file_count,
     snapshots_total |-> snapshots_total]

\* get_locks of the fork: the line breaks of the output
get_locks_fork(text_result) == Len(SplitLines(text_result)) - 1

(***************************************************************************)
(* The retention evaluation of _parse_metrics.  Instants are whole seconds *)
(* since the local midnight that began Monday 1 January 2024, in one time  *)
(* zone without clock changes, so that local days are the multiples of     *)
(* Day.                                                                    *)
(***************************************************************************)
Hour == 3600
Day == 24 * Hour
EpochYear == 2024

\* float(text) of the decimal text of a whole number
RECURSIVE py_float(_)
py_float(str) ==
    IF str = <<>> THEN 0
    ELSE IF Head(str) = 45 THEN 0 - py_float(Tail(str))
    ELSE 10 * py_float(SubSeq(str, 1, Len(str) - 1)) + (str[Len(str)] - 48)

\* round(n / d) for n >= 0 and d > 0: to the nearest whole number, a half
\* going to the even neighbour
py_round(n, d) ==
    LET q == n \div d
        r == n % d
    IN  IF 2 * r < d THEN q
        ELSE IF 2 * r > d THEN q + 1
        ELSE IF q % 2 = 0 THEN q ELSE q + 1

\* a minimum that is always its first argument
PyMinFirst(a, b) == a
\* min(a, b)
py_min(a, b) == IF b < a THEN b ELSE a

\* the local calendar of an instant
DayOf(ts) == ts \div Day
HourOf(ts) == (ts % Day) \div Hour
IsLeap(year) == year % 4 = 0 /\ (year % 100 # 0 \/ year % 400 = 0)
DaysIn(year) == IF IsLeap(year) THEN 366 ELSE 365
\* <<year, day of the year from 0>> of a day number
RECURSIVE YearFrom(_, _)
YearFrom(year, d) ==
    IF d < DaysIn(year) THEN <<year, d>> ELSE YearFrom(year + 1, d - DaysIn(year))
YearOf(ts) == YearFrom(EpochYear, DayOf(ts))[1]
YearDayOf(ts) == YearFrom(EpochYear, DayOf(ts))[2]
MonthLengths(year) ==
    <<31, IF IsLeap(year) THEN 29 ELSE 28, 31, 30, 31, 30, 31, 31, 30, 31, 30, 31>>
RECURSIVE MonthFrom(_, _, _)
MonthFrom(year, month, d) ==
    IF d < MonthLengths(year)[month] THEN month
    ELSE MonthFrom(year, month + 1, d - MonthLengths(year)[month])
MonthOf(ts) == MonthFrom(YearOf(ts), 1, YearDayOf(ts))
\* Monday is 0; the epoch is a Monday
WeekdayOf(ts) == DayOf(ts) % 7

\* strftime('%Y%m%d'), '%Y%W', '%Y%m' and '%Y' of the local date of an instant
day_key(ts) == <<YearOf(ts), MonthOf(ts), YearDayOf(ts)>>
week_key(ts) == <<YearOf(ts), (YearDayOf(ts) + 7 - WeekdayOf(ts)) \div 7>>
month_key(ts) == <<YearOf(ts), MonthOf(ts)>>
year_key(ts) == <<YearOf(ts)>>

\* the expected hourly backups: the hours from 0 to today.hour that are in
\* self.backup_times
HourlyExpected(today, backup_times) ==
    Cardinality({hour \in 0..HourOf(today) :
                    \E i \in DOMAIN backup_times : backup_times[i] = hour})

\* the sum of the counts of the tags of a set in snap_by_type_total_counter
RECURSIVE TagsFound(_, _)
TagsFound(counter, tags) ==
    IF counter = <<>> THEN 0
    ELSE (IF Head(counter).k \in tags THEN Head(counter).v ELSE 0)
         + TagsFound(Tail(counter), tags)

\* snap_by_type_total_counter and snapshot_stats after the history loop
RECURSIVE HistoryTags(_, _)
HistoryTags(counter, snapshots) ==
    IF snapshots = <<>> THEN counter
    ELSE HistoryTags(CountTags(counter, Get(Head(snapshots), "tags", <<>>)), Tail(snapshots))
\* stats_data[id] is what get_stats returns for the snapshot id; the
\* dictionary snapshot_stats is keyed by snapshot id
RECURSIVE HistoryStats(_, _)
HistoryStats(snapshots, stats_data) ==
    IF snapshots = <<>> THEN <<>>
    ELSE LET snap == snapshots[Len(snapshots)]
         IN  Store(HistoryStats(SubSeq(snapshots, 1, Len(snapshots) - 1), stats_data),
                   snap.id, SnapshotStatsEntry(snap, stats_data[snap.id]))

\* oldest_snapshot after the history loop: every iteration compares it with
\* the timestamp of the entry it has just stored
RECURSIVE OldestSnapshot(_, _)
OldestSnapshot(oldest, snapshots) ==
    IF snapshots = <<>> THEN oldest
    ELSE OldestSnapshot(IF oldest > py_float(parse_timestamp(Head(snapshots).time))
                        THEN py_float(parse_timestamp(Head(snapshots).time))
                        ELSE oldest,
                        Tail(snapshots))

\* snap_by_type_retention_policy as _parse_metrics returns it: today is the
\* clock read when the pass begins, current_date the clock read once the
\* history has been listed and its stats fetched
RetentionPolicy(today, current_date, snapshots, stats_data, retention_policy, backup_times) ==
    LET counter == HistoryTags(<<>>, snapshots)
        stats == Values(HistoryStats(snapshots, stats_data))
        elapsed == today - OldestSnapshot(today, snapshots)
        max_daily_snaps == py_round(elapsed, Day)
        max_weekly_snaps == IF elapsed >= 7 THEN py_round(elapsed, 7 * Day) ELSE 0
        max_monthly_snaps == IF elapsed >= 30 THEN py_round(elapsed, 30 * Day) ELSE 0
        max_yearly_snaps == IF elapsed >= 365 THEN py_round(elapsed, 365 * Day) ELSE 0
        sla == "SLA" \in Keys(counter)
        sla_backups == {py_float(stats[i].snapshot_timestamp) :
                           i \in {j \in DOMAIN stats : stats[j].snapshot_tag = "SLA"}}
        sla_count(from, to) ==
            Cardinality({i \in DOMAIN stats :
                            /\ stats[i].snapshot_tag = "SLA"
                            /\ from <= py_float(stats[i].snapshot_timestamp)
                            /\ py_float(stats[i].snapshot_timestamp) <= to})
        hourly_start_timestamp == DayOf(today) * Day
        hourly_stop_timestamp == DayOf(today) * Day + Day - 1
        weekly_start == current_date - 7 * Day * Get(retention_policy, "weekly", 1)
        monthly_start == current_date - 30 * Day * Get(retention_policy, "monthly", 1)
        yearly_start == current_date - 365 * Day * Get(retention_policy, "yearly", 1)
        within(start) == {ts \in sla_backups : start <= ts /\ ts <= current_date}
        bucket(name, expected, found) ==
            [policy |-> Get(retention_policy, name, 0), expected |-> expected, found |-> found]
    IN  [manual |-> bucket("manual", 0, TagsFound(counter, {"manual", "pre-restore"})),
         update |-> bucket("update", 0, TagsFound(counter, {"update", "sync-envs"})),
         hourly |-> bucket("hourly", HourlyExpected(today, backup_times),
                           IF sla THEN sla_count(hourly_start_timestamp, hourly_stop_timestamp)
                           ELSE 0),
         daily |-> bucket("daily",
                          py_min(max_daily_snaps, Get(retention_policy, "daily", 0)),
                          IF sla THEN Cardinality({day_key(ts) : ts \in sla_backups}) ELSE 0),
         weekly |-> bucket("weekly",
                           py_min(max_weekly_snaps, Get(retention_policy, "weekly", 0)),
                           IF sla THEN Cardinality({week_key(ts) : ts \in within(weekly_start)})
                           ELSE 0),
         monthly |-> bucket("monthly",
                            py_min(max_monthly_snaps, Get(retention_policy, "monthly", 0)),
                            IF sla THEN Cardinality({month_key(ts) : ts \in within(monthly_start)})
                            ELSE 0),
         yearly |-> bucket("yearly",
                           py_min(max_yearly_snaps, Get(retention_policy, "yearly", 0)),
                           IF sla THEN Cardinality({year_key(ts) : ts \in within(yearly_start)})
                           ELSE 0)]

\* the value collect gives restic_snapshots_by_retention_policy_state
PolicyState(policy_data) == IF policy_data.expected <= policy_data.found THEN 1 ELSE 0

(***************************************************************************)
(* The process.                                                            *)
(***************************************************************************)
VARIABLES
    variant,            \* "exporter": src/exporter/exporter.py, "fork": src/restic-exporter.py
    environ,            \* the feature toggles of os.environ: set or not
    flags,              \* the collector's disable_* and exit_on_error fields
    stats_cache,        \* stats_snapshot_cache / stats_cache: id -> stats, or None
    metrics,            \* self.metrics, the published value
    pc,                 \* where the main thread is
    passes,             \* refresh passes started so far
    \* locals of the pass under way
    all_snapshots,      \* the full-history listing
    snap_total_counter,
    history_pos,        \* fork: snapshots of the history the first loop has done
    snap_by_type_total_counter,
    snapshot_stats,
    latest_snapshots_dup,
    listed,             \* the listings as the collaborator printed them in this pass
    latest_snapshots,
    clients,
    global_stats,
    check_success,
    check_returncode,   \* the exit code of the check command in this pass, or None
    locks_total,
    box_metrics,        \* fork: the list get_metrics is filling, one dictionary for
                        \* every storage box done in this pass
    \* history of the run
    calls,              \* the collaborator calls of the pass, in order
    stats_queries,      \* id -> per-snapshot stats queries issued since the start
    metrics_before,     \* self.metrics when the pass began
    raised,             \* the exception that ended the pass, or "none"
    pass_result,        \* the pass: "none", "running", "ok" or "failed"
    \* a scrape: collect running in a thread of the HTTP server
    collect_pos,        \* 0: no scrape under way, k: its k-th read of self.metrics is next
    collect_out,        \* the values the scrape has added to its metric families
    collect_snapshot,   \* self.metrics at the first read of the scrape
    collect_result,     \* the last scrape: "none", "ok" or "error" (it raised)
    \* one application of a function of the program to given arguments
    fn_args,            \* the function and its arguments, or None
    fn_result           \* what it returned, or None before the call

locals == <<all_snapshots, snap_total_counter, history_pos, snap_by_type_total_counter,
            snapshot_stats, latest_snapshots_dup, listed, latest_snapshots, clients,
            global_stats, check_success, check_returncode, locks_total>>
settings == <<variant, environ, flags>>
reader == <<collect_pos, collect_out, collect_snapshot, collect_result>>
pure == <<fn_args, fn_result>>
vars == <<variant, environ, flags, stats_cache, metrics, pc, passes,
          all_snapshots, snap_total_counter, history_pos, snap_by_type_total_counter,
          snapshot_stats, latest_snapshots_dup, listed, latest_snapshots, clients,
          global_stats, check_success, check_returncode, locks_total, box_metrics,
          calls, stats_queries, metrics_before, pass_result, raised,
          collect_pos, collect_out, collect_snapshot, collect_result,
          fn_args, fn_result>>

\* the feature toggles main of exporter.py reads
ExporterEnviron ==
    [EXIT_ON_ERROR : BOOLEAN, NO_CHECK : BOOLEAN, NO_GLOBAL_STATS : BOOLEAN,
     NO_LEGACY_STATS : BOOLEAN, NO_LOCKS : BOOLEAN]

\* the collector main of exporter.py builds
ExporterCollector(env) ==
    [disable_check |-> env.NO_CHECK,
     disable_global_stats |-> env.NO_GLOBAL_STATS,
     disable_legacy_stats |-> env.NO_LEGACY_STATS,
     disable_locks |-> env.NO_LOCKS]

\* the feature toggles the entry point of restic-exporter.py reads
\* and RESTIC_STORAGEBOXES, a text of characters: unset or empty, or the
\* names of two storage boxes
ForkEnviron ==
    [EXIT_ON_ERROR : BOOLEAN, NO_CHECK : BOOLEAN, NO_STATS : BOOLEAN, NO_LOCKS : BOOLEAN,
     RESTIC_STORAGEBOXES : {<<>>, <<"b", "1", ",", "b", "2">>}]

\* storageboxes.split(','), when the text is not empty
RECURSIVE SplitComma(_, _)
SplitComma(text, name) ==
    IF text = <<>> THEN <<name>>
    ELSE IF Head(text) = "," THEN <<name>> \o SplitComma(Tail(text), "")
    ELSE SplitComma(Tail(text), name \o Head(text))

\* the keyword arguments the entry point of restic-exporter.py passes
ForkKwargs(env) ==
    [exit_on_error |-> env.EXIT_ON_ERROR,
     disable_checks |-> env.NO_CHECK,
     disable_stats |-> env.NO_STATS,
     disable_locks |-> env.NO_LOCKS]

\* the fields ResticCollector.__init__ of restic-exporter.py reads from them
ForkCollector(storageboxes, kwargs) ==
    [storage_boxes |-> IF storageboxes = <<>> THEN <<>> ELSE SplitComma(storageboxes, ""),
     exit_on_error |-> Get(kwargs, "exit_on_error", FALSE),
     disable_check |-> Get(kwargs, "disable_check", FALSE),
     disable_stats |-> Get(kwargs, "disable_stats", FALSE),
     disable_locks |-> Get(kwargs, "disable_locks", FALSE)]

\* no listing has been printed in this pass
NoListings == [history |-> <<>>, latest |-> <<>>]

\* the locals of a pass that has not computed anything
NoLocals ==
    /\ all_snapshots' = <<>>
    /\ snap_total_counter' = <<>>
    /\ history_pos' = 0
    /\ snap_by_type_total_counter' = <<>>
    /\ snapshot_stats' = <<>>
    /\ latest_snapshots_dup' = <<>>
    /\ latest_snapshots' = <<>>
    /\ clients' = <<>>
    /\ global_stats' = None
    /\ check_success' = Unbound
    /\ locks_total' = Unbound

InitCommon ==
    /\ stats_cache = [id \in Ids |-> None]
    /\ pc = "start"
    /\ passes = 0
    /\ all_snapshots = <<>>
    /\ snap_total_counter = <<>>
    /\ history_pos = 0
    /\ snap_by_type_total_counter = <<>>
    /\ snapshot_stats = <<>>
    /\ latest_snapshots_dup = <<>>
    /\ listed = NoListings
    /\ latest_snapshots = <<>>
    /\ clients = <<>>
    /\ global_stats = None
    /\ check_success = Unbound
    /\ check_returncode = None
    /\ locks_total = Unbound
    /\ box_metrics = <<>>
    /\ calls = <<>>
    /\ stats_queries = [id \in Ids |-> 0]
    /\ pass_result = "none"
    /\ raised = "none"
    /\ collect_pos = 0
    /\ collect_out = <<>>
    /\ collect_snapshot = None
    /\ collect_result = "none"

\* exporter.py: the collector as main has built it, before the first refresh
InitExporter ==
    /\ variant = "exporter"
    /\ environ \in ExporterEnviron
    /\ flags = ExporterCollector(environ)
    /\ metrics = None
    /\ metrics_before = None

\* restic-exporter.py: the collector inside __init__, before the first refresh
InitFork ==
    /\ variant = "fork"
    /\ environ \in ForkEnviron
    /\ flags = ForkCollector(environ.RESTIC_STORAGEBOXES, ForkKwargs(environ))
    /\ metrics = <<>>
    /\ metrics_before = <<>>

\* the exit_on_error argument of the refresh call that runs the pass: the
\* first call is given the setting, the calls of the loop are given nothing
RefreshExitOnError ==
    IF passes = 1
    THEN (IF variant = "exporter" THEN environ.EXIT_ON_ERROR ELSE flags.exit_on_error)
    ELSE FALSE

\* a refresh that drops the published value when get_metrics raises
MetricsAfterFailureCleared == IF variant = "exporter" THEN None ELSE <<>>
\* self.metrics after a pass that raised
MetricsAfterFailure == metrics

\* refresh, when get_metrics raised; listings are the listings the pass was
\* given, up to the one it raised on
RaiseWith(exception, listings) ==
    /\ metrics' = MetricsAfterFailure
    /\ pc' = IF RefreshExitOnError THEN "exited" ELSE "refreshed"
    /\ pass_result' = "failed"
    /\ raised' = exception
    /\ NoLocals
    /\ listed' = listings
    /\ UNCHANGED check_returncode
\* a data error inside get_metrics
RaiseError(exception) == RaiseWith(exception, listed)
\* a command of the collaborator exited non-zero: raise Exception(...)
\* a failed command that leaves the pass where it is, to be issued again
RaiseRetry ==
    /\ raised' = "Exception"
    /\ UNCHANGED <<metrics, pc, pass_result, locals, listed, check_returncode>>
\* a collaborator command exited non-zero: the call raises Exception
Raise == RaiseError("Exception")

\* refresh is entered: after construction, then after every sleep
StartPass(limit) ==
    /\ pc \in {"start", "sleep"}
    /\ passes < limit
    /\ passes' = passes + 1
    /\ pc' = "counters"
    /\ metrics_before' = metrics
    /\ pass_result' = "running"
    /\ raised' = "none"
    /\ box_metrics' = <<>>
    /\ UNCHANGED <<settings, pure, reader, stats_cache, metrics, stats_queries, locals, calls>>

\* a cache that keeps only the entry it was last given
CacheStoreOnly(cache, snapshot_id, stats) ==
    [id \in DOMAIN cache |-> IF id = snapshot_id THEN stats ELSE None]
\* self.stats_snapshot_cache[snapshot_id] = stats (self.stats_cache in the fork)
CacheStore(cache, snapshot_id, stats) == [cache EXCEPT ![snapshot_id] = stats]

\* the refresh of a later round of the loop of main: the rounds after the
\* first MaxPasses are not counted
StartPassAgain ==
    /\ pc = "sleep"
    /\ passes = MaxPasses
    /\ pc' = "counters"
    /\ metrics_before' = metrics
    /\ pass_result' = "running"
    /\ raised' = "none"
    /\ box_metrics' = <<>>
    /\ UNCHANGED <<settings, pure, reader, stats_cache, metrics, passes, stats_queries,
                   locals, calls>>

\* one more stats query issued for an id; the count stops at MaxPasses
CountQuery(queries, snapshot_id) ==
    [queries EXCEPT ![snapshot_id] = IF @ < MaxPasses THEN @ + 1 ELSE @]

\* REGISTRY.register(collector), which main of exporter.py calls after the
\* first refresh: the default registry calls collect of a collector that has
\* no describe method, and collect raises AttributeError on self.metrics =
\* None; main catches KeyboardInterrupt only
RegisterRaises == variant = "exporter" /\ passes = 1 /\ metrics = None

\* refresh has returned: after the first one the main thread registers the
\* collector and starts the HTTP server; it then goes round its loop and
\* sleeps, and the locals of the pass are gone
Sleep ==
    /\ pc = "refreshed"
    /\ IF RegisterRaises
       THEN /\ pc' = "crashed"
            /\ collect_result' = "error"
            /\ UNCHANGED <<locals, box_metrics, calls, metrics_before, pass_result, raised,
                           collect_pos, collect_out, collect_snapshot>>
       ELSE /\ pc' = "sleep"
            /\ NoLocals
            /\ box_metrics' = <<>>
            /\ listed' = NoListings
            /\ check_returncode' = None
            /\ calls' = <<>>
            /\ metrics_before' = metrics
            /\ pass_result' = "none"
            /\ raised' = "none"
            /\ UNCHANGED reader
    /\ UNCHANGED <<settings, pure, stats_cache, metrics, passes, stats_queries>>

(***************************************************************************)
(* A pass of exporter.py: get_metrics.                                     *)
(***************************************************************************)
\* get_snapshots_counters: the full-history listing and its counters
GetSnapshotsCounters(listings) ==
    /\ variant = "exporter"
    /\ pc = "counters"
    /\ calls' = Append(calls, "snapshots")
    /\ \/ Raise
       \/ \E snapshots_data \in listings :
            IF \E i \in DOMAIN snapshots_data : HashRaises(snapshots_data[i])
            THEN RaiseWith("KeyError", [listed EXCEPT !.history = snapshots_data])
            ELSE /\ all_snapshots' = snapshots_data
                 /\ listed' = [listed EXCEPT !.history = snapshots_data]
                 /\ snap_total_counter' = get_snapshots_counters(snapshots_data)
                 /\ pc' = "latest"
                 /\ UNCHANGED <<metrics, pass_result, raised, history_pos,
                                snap_by_type_total_counter, snapshot_stats,
                                latest_snapshots_dup,
                                latest_snapshots, clients, global_stats, check_success, check_returncode,
                                locks_total>>
    /\ UNCHANGED <<settings, box_metrics, pure, reader, stats_cache, passes, stats_queries, metrics_before>>

\* a get_latest_snapshots that skips the records it cannot normalise
LatestSkipped(snapshots_data) ==
    LET kept == SelectSeq(snapshots_data, LAMBDA snap_data : ~NormalizeRaises(snap_data))
    IN  /\ listed' = [listed EXCEPT !.latest = snapshots_data]
        /\ latest_snapshots_dup' = NormalizeAll(kept)
        /\ latest_snapshots' = LatestPerHash(NormalizeAll(kept))
        /\ pc' = "clients"
        /\ UNCHANGED <<metrics, pass_result, raised, all_snapshots, snap_total_counter,
                       history_pos, snap_by_type_total_counter, snapshot_stats,
                       clients, global_stats, check_success, check_returncode, locks_total>>
\* get_latest_snapshots on a listing with a record that raises: the
\* exception leaves get_metrics
LatestRaised(snapshots_data) ==
    LET first == CHOOSE i \in DOMAIN snapshots_data :
                     /\ NormalizeRaises(snapshots_data[i])
                     /\ \A j \in 1..(i - 1) : ~NormalizeRaises(snapshots_data[j])
        snap_data == snapshots_data[first]
    IN  RaiseWith(IF "time" \in DOMAIN snap_data /\ ~HashRaises(snap_data)
                     /\ ~TimeParses(snap_data.time)
                  THEN "ValueError" ELSE "KeyError",
                  [listed EXCEPT !.latest = snapshots_data])

\* a lookup that answers 0 for a hash the counter does not hold
SnapshotsTotalOrZero(counter, hash) ==
    [returned |-> IF hash \in Keys(counter) THEN Lookup(counter, hash) ELSE 0]
\* snap_total_counter[snap.hash]: KeyError for a hash the full-history
\* listing did not hold
SnapshotsTotal(counter, hash) ==
    IF hash \in Keys(counter) THEN [returned |-> Lookup(counter, hash)]
    ELSE [raised |-> "KeyError"]

\* get_latest_snapshots and the deduplication loop
GetLatestSnapshots(listings) ==
    /\ variant = "exporter"
    /\ pc = "latest"
    /\ calls' = Append(calls, "snapshots --latest 1")
    /\ \/ Raise
       \/ \E snapshots_data \in listings :
            IF \E i \in DOMAIN snapshots_data : NormalizeRaises(snapshots_data[i])
            THEN LatestRaised(snapshots_data)
            ELSE
            /\ listed' = [listed EXCEPT !.latest = snapshots_data]
            /\ latest_snapshots_dup' = NormalizeAll(snapshots_data)
            /\ latest_snapshots' = LatestPerHash(NormalizeAll(snapshots_data))
            /\ pc' = "clients"
            /\ UNCHANGED <<metrics, pass_result, raised, all_snapshots, snap_total_counter,
                           history_pos, snap_by_type_total_counter, snapshot_stats,
                           clients, global_stats, check_success, check_returncode, locks_total>>
    /\ UNCHANGED <<settings, box_metrics, pure, reader, stats_cache, passes, stats_queries, metrics_before>>

\* a get_stats_legacy that does not look into the cache
LegacyQueriesNoCache(snapshot_id) == ~flags.disable_legacy_stats
\* whether get_stats_legacy runs the stats command for this id
LegacyQueries(snapshot_id) ==
    /\ ~flags.disable_legacy_stats
    /\ stats_cache[snapshot_id] = None

\* what get_stats_legacy returns without running the stats command
LegacyAnswer(snapshot_id) ==
    IF flags.disable_legacy_stats THEN SentinelStats ELSE stats_cache[snapshot_id]

\* one iteration of the client loop of get_metrics
BuildClient ==
    /\ variant = "exporter"
    /\ pc = "clients"
    /\ Len(clients) < Len(latest_snapshots)
    /\ LET snap == latest_snapshots[Len(clients) + 1].v
           Finish(stats) ==
               IF "returned" \in DOMAIN SnapshotsTotal(snap_total_counter, snap.hash)
               THEN /\ clients' = Append(clients,
                           ResticClient(snap, stats,
                               SnapshotsTotal(snap_total_counter, snap.hash).returned))
                    /\ UNCHANGED <<metrics, pass_result, raised, pc, all_snapshots,
                                   snap_total_counter, history_pos,
                                   snap_by_type_total_counter, snapshot_stats,
                                   latest_snapshots_dup, listed, latest_snapshots, global_stats,
                                   check_success, check_returncode, locks_total>>
               ELSE RaiseError("KeyError")
       IN  IF snap.stats # None
           THEN /\ Finish(snap.stats)
                /\ UNCHANGED <<stats_cache, stats_queries, calls>>
           ELSE IF ~LegacyQueries(snap.id)
           THEN /\ Finish(LegacyAnswer(snap.id))
                /\ UNCHANGED <<stats_cache, stats_queries, calls>>
           ELSE /\ calls' = Append(calls, "stats " \o snap.id)
                /\ stats_queries' = CountQuery(stats_queries, snap.id)
                /\ \/ /\ Raise
                      /\ UNCHANGED stats_cache
                   \/ /\ stats_cache' = CacheStore(stats_cache, snap.id,
                                                     LegacyStats(StatsData(snap.id)))
                      /\ Finish(LegacyStats(StatsData(snap.id)))
    /\ UNCHANGED <<settings, box_metrics, pure, reader, passes, metrics_before>>

\* get_stats_global
GetStatsGlobal ==
    /\ variant = "exporter"
    /\ pc = "clients"
    /\ Len(clients) = Len(latest_snapshots)
    /\ IF flags.disable_global_stats
       THEN /\ global_stats' = SentinelGlobalStats
            /\ pc' = "check"
            /\ UNCHANGED <<calls, metrics, pass_result, raised, all_snapshots, snap_total_counter,
                           history_pos, snap_by_type_total_counter, snapshot_stats,
                           latest_snapshots_dup, listed, latest_snapshots, clients,
                           check_success, check_returncode, locks_total>>
       ELSE /\ calls' = Append(calls, "stats --mode raw-data")
            /\ \/ Raise
               \/ /\ global_stats' = GlobalStats(GlobalStatsData)
                  /\ pc' = "check"
                  /\ UNCHANGED <<metrics, pass_result, raised, all_snapshots, snap_total_counter,
                                 history_pos, snap_by_type_total_counter, snapshot_stats,
                                 latest_snapshots_dup, listed, latest_snapshots, clients,
                                 check_success, check_returncode, locks_total>>
    /\ UNCHANGED <<settings, box_metrics, pure, reader, stats_cache, passes, stats_queries, metrics_before>>

\* a get_check that reports success whatever the exit code
GetCheckAlwaysOk(returncode) == 1
\* get_check: 1 for exit code 0, 0 for any other
get_check(returncode) == IF returncode = 0 THEN 1 ELSE 0

\* a get_check that runs the check command whatever the flag says
RunsCheckAlways == TRUE
\* whether get_check runs the check command
RunsCheck == ~flags.disable_check

\* the check step of get_metrics
GetCheck ==
    /\ variant = "exporter"
    /\ pc = "check"
    /\ IF ~RunsCheck
       THEN /\ check_success' = 2
            /\ UNCHANGED <<calls, check_returncode>>
       ELSE /\ calls' = Append(calls, "check")
            /\ \E returncode \in {0, 1} :
                  /\ check_success' = get_check(returncode)
                  /\ check_returncode' = [returncode |-> returncode]
    /\ pc' = "locks"
    /\ UNCHANGED <<settings, box_metrics, pure, reader, stats_cache, metrics, passes, stats_queries, metrics_before,
                   pass_result, raised, all_snapshots, snap_total_counter, history_pos,
                   snap_by_type_total_counter, snapshot_stats, latest_snapshots_dup, listed,
                   latest_snapshots, clients, global_stats, locks_total>>

\* the locks step of get_metrics
GetLocks ==
    /\ variant = "exporter"
    /\ pc = "locks"
    /\ IF flags.disable_locks
       THEN /\ locks_total' = 0
            /\ pc' = "return"
            /\ UNCHANGED <<calls, metrics, pass_result, raised, all_snapshots, snap_total_counter,
                           history_pos, snap_by_type_total_counter, snapshot_stats,
                           latest_snapshots_dup, listed, latest_snapshots, clients,
                           global_stats, check_success, check_returncode>>
       ELSE /\ calls' = Append(calls, "list locks")
            /\ \/ Raise
               \/ \E text_result \in LockOutputs :
                    /\ locks_total' = get_locks(text_result)
                    /\ pc' = "return"
                    /\ UNCHANGED <<metrics, pass_result, raised, all_snapshots, snap_total_counter,
                                   history_pos, snap_by_type_total_counter, snapshot_stats,
                                   latest_snapshots_dup, listed, latest_snapshots, clients,
                                   global_stats, check_success, check_returncode>>
    /\ UNCHANGED <<settings, box_metrics, pure, reader, stats_cache, passes, stats_queries, metrics_before>>

\* the ResticMetrics get_metrics returns
ResticMetrics ==
    [check_success |-> check_success,
     locks_total |-> locks_total,
     clients |-> clients,
     global_stats |-> global_stats]

\* get_metrics returns and refresh assigns self.metrics
Publish ==
    /\ variant = "exporter"
    /\ pc = "return"
    /\ metrics' = ResticMetrics
    /\ pc' = "refreshed"
    /\ pass_result' = "ok"
    /\ UNCHANGED raised
    /\ UNCHANGED <<settings, box_metrics, pure, reader, stats_cache, passes, locals, calls, stats_queries,
                   metrics_before>>

(***************************************************************************)
(* A pass of restic-exporter.py: get_metrics, which calls _parse_metrics   *)
(* once for every storage box, or once with no storage box when none is    *)
(* set.                                                                    *)
(***************************************************************************)
\* the storagebox argument of the call of _parse_metrics under way, "" when
\* it is None
StorageBox ==
    IF flags.storage_boxes = <<>> THEN "" ELSE flags.storage_boxes[Len(box_metrics) + 1]

\* get_snapshots for the full history
ForkGetSnapshots(listings) ==
    /\ variant = "fork"
    /\ pc = "counters"
    /\ calls' = Append(calls, "snapshots")
    /\ \/ Raise
       \/ \E snapshots \in listings :
            IF \E i \in DOMAIN snapshots : ForkHashRaises(snapshots[i])
            THEN RaiseWith("KeyError", [listed EXCEPT !.history = snapshots])
            ELSE
            /\ all_snapshots' = ForkSnapshots(snapshots)
            /\ listed' = [listed EXCEPT !.history = snapshots]
            /\ pc' = "history"
            /\ UNCHANGED <<metrics, pass_result, raised, snap_total_counter, history_pos,
                           snap_by_type_total_counter, snapshot_stats,
                           latest_snapshots_dup, latest_snapshots, clients,
                           global_stats, check_success, check_returncode, locks_total>>
    /\ UNCHANGED <<settings, box_metrics, pure, reader, stats_cache, passes, stats_queries, metrics_before>>

\* one iteration of the loop of _parse_metrics over the full history
ForkHistoryStep ==
    /\ variant = "fork"
    /\ pc = "history"
    /\ history_pos < Len(all_snapshots)
    /\ LET snap == all_snapshots[history_pos + 1]
           Finish(snap_stats) ==
               \* snap["tags"][0] raises for a record without tags, then
               \* snap["time"] and _parse_timestamp
               IF \/ "tags" \notin DOMAIN snap
                  \/ Get(snap, "tags", <<>>) = <<>>
                  \/ ForkTimeRaises(snap)
               THEN RaiseError(IF "tags" \notin DOMAIN snap THEN "KeyError"
                               ELSE IF snap.tags = <<>> THEN "IndexError"
                               ELSE ForkTimeError(snap))
               ELSE /\ snap_total_counter' = CountOne(snap_total_counter, snap.hash)
                    /\ snap_by_type_total_counter' =
                           CountTags(snap_by_type_total_counter, snap.tags)
                    /\ snapshot_stats' =
                           Store(snapshot_stats, snap.id, SnapshotStatsEntry(snap, snap_stats))
                    /\ history_pos' = history_pos + 1
                    /\ UNCHANGED <<metrics, pass_result, raised, pc, all_snapshots,
                                   latest_snapshots_dup, listed, latest_snapshots, clients,
                                   global_stats, check_success, check_returncode, locks_total>>
       IN  \* get_stats: the cache, else the stats command
           IF stats_cache[snap.id] # None
           THEN /\ Finish(stats_cache[snap.id])
                /\ UNCHANGED <<stats_cache, stats_queries, calls>>
           ELSE /\ calls' = Append(calls, "stats " \o snap.id)
                /\ stats_queries' = CountQuery(stats_queries, snap.id)
                /\ \/ /\ Raise
                      /\ UNCHANGED stats_cache
                   \/ /\ stats_cache' = CacheStore(stats_cache, snap.id, StatsData(snap.id))
                      /\ Finish(StatsData(snap.id))
    /\ UNCHANGED <<settings, box_metrics, pure, reader, passes, metrics_before>>

\* get_snapshots for the latest snapshots, and the deduplication loop
ForkGetLatest(listings) ==
    /\ variant = "fork"
    /\ pc = "history"
    /\ history_pos = Len(all_snapshots)
    /\ calls' = Append(calls, "snapshots --latest 1")
    /\ \/ Raise
       \/ \E snapshots \in listings :
            IF \E i \in DOMAIN snapshots :
                   ForkHashRaises(snapshots[i]) \/ ForkTimeRaises(snapshots[i])
            THEN RaiseWith(ForkLatestError(snapshots), [listed EXCEPT !.latest = snapshots])
            ELSE
            /\ listed' = [listed EXCEPT !.latest = snapshots]
            /\ latest_snapshots_dup' = ForkTimestamps(ForkSnapshots(snapshots))
            /\ latest_snapshots' = ForkLatestPerHash(ForkTimestamps(ForkSnapshots(snapshots)))
            /\ pc' = "clients"
            /\ UNCHANGED <<metrics, pass_result, raised, all_snapshots, snap_total_counter,
                           history_pos, snap_by_type_total_counter, snapshot_stats,
                           clients, global_stats, check_success, check_returncode, locks_total>>
    /\ UNCHANGED <<settings, box_metrics, pure, reader, stats_cache, passes, stats_queries, metrics_before>>

\* one iteration of the client loop of _parse_metrics
ForkBuildClient ==
    /\ variant = "fork"
    /\ pc = "clients"
    /\ Len(clients) < Len(latest_snapshots)
    /\ LET snap == latest_snapshots[Len(clients) + 1].v
           Finish(stats) ==
               \* snap["tags"][0] raises for an empty tag list, and
               \* snap_total_counter[snap["hash"]] for a hash the history did not hold
               IF \/ ("tags" \in DOMAIN snap /\ Get(snap, "tags", <<>>) = <<>>)
                  \/ snap.hash \notin Keys(snap_total_counter)
               THEN RaiseError(IF "tags" \in DOMAIN snap /\ snap.tags = <<>>
                               THEN "IndexError" ELSE "KeyError")
               ELSE /\ clients' = Append(clients,
                           ForkClient(StorageBox, snap, stats,
                                      Lookup(snap_total_counter, snap.hash)))
                    /\ UNCHANGED <<metrics, pass_result, raised, pc, all_snapshots,
                                   snap_total_counter, history_pos,
                                   snap_by_type_total_counter, snapshot_stats,
                                   latest_snapshots_dup, listed, latest_snapshots, global_stats,
                                   check_success, check_returncode, locks_total>>
       IN  IF flags.disable_stats
           THEN /\ Finish(ForkSentinelStats)
                /\ UNCHANGED <<stats_cache, stats_queries, calls>>
           ELSE IF stats_cache[snap.id] # None
           THEN /\ Finish(stats_cache[snap.id])
                /\ UNCHANGED <<stats_cache, stats_queries, calls>>
           ELSE /\ calls' = Append(calls, "stats " \o snap.id)
                /\ stats_queries' = CountQuery(stats_queries, snap.id)
                /\ \/ /\ Raise
                      /\ UNCHANGED stats_cache
                   \/ /\ stats_cache' = CacheStore(stats_cache, snap.id, StatsData(snap.id))
                      /\ Finish(StatsData(snap.id))
    /\ UNCHANGED <<settings, box_metrics, pure, reader, passes, metrics_before>>

\* the check step of _parse_metrics
ForkGetCheck ==
    /\ variant = "fork"
    /\ pc = "clients"
    /\ Len(clients) = Len(latest_snapshots)
    /\ IF flags.disable_check
       THEN /\ check_success' = 2
            /\ UNCHANGED <<calls, check_returncode>>
       ELSE /\ calls' = Append(calls, "check")
            /\ \E returncode \in {0, 1} :
                  /\ check_success' = get_check(returncode)
                  /\ check_returncode' = [returncode |-> returncode]
    /\ pc' = "locks"
    /\ UNCHANGED <<settings, box_metrics, pure, reader, stats_cache, metrics, passes, stats_queries, metrics_before,
                   pass_result, raised, all_snapshots, snap_total_counter, history_pos,
                   snap_by_type_total_counter, snapshot_stats, latest_snapshots_dup, listed,
                   latest_snapshots, clients, global_stats, locks_total>>

\* the locks step of _parse_metrics
ForkGetLocks ==
    /\ variant = "fork"
    /\ pc = "locks"
    /\ IF flags.disable_locks
       THEN /\ locks_total' = 0
            /\ pc' = "return"
            /\ UNCHANGED <<calls, metrics, pass_result, raised, all_snapshots, snap_total_counter,
                           history_pos, snap_by_type_total_counter, snapshot_stats,
                           latest_snapshots_dup, listed, latest_snapshots, clients,
                           global_stats, check_success, check_returncode>>
       ELSE /\ calls' = Append(calls, "list locks")
            /\ \/ Raise
               \/ \E text_result \in LockOutputs :
                    /\ locks_total' = get_locks_fork(text_result)
                    /\ pc' = "return"
                    /\ UNCHANGED <<metrics, pass_result, raised, all_snapshots, snap_total_counter,
                                   history_pos, snap_by_type_total_counter, snapshot_stats,
                                   latest_snapshots_dup, listed, latest_snapshots, clients,
                                   global_stats, check_success, check_returncode>>
    /\ UNCHANGED <<settings, box_metrics, pure, reader, stats_cache, passes, stats_queries, metrics_before>>

\* the metrics dictionary _parse_metrics returns
ForkMetrics ==
    [snapshots_by_type |-> snap_by_type_total_counter,
     snapshots_stats |-> snapshot_stats,
     check_success |-> check_success,
     locks_total |-> locks_total,
     clients |-> clients,
     snapshots_total |-> Len(all_snapshots),
     \* "storagebox": None, or the name of the box as [name |-> it]
     storagebox |-> IF flags.storage_boxes = <<>> THEN None ELSE [name |-> StorageBox]]

\* _parse_metrics has returned for a storage box that is not the last:
\* get_metrics appends the dictionary and calls _parse_metrics for the next
ForkNextBox ==
    /\ variant = "fork"
    /\ pc = "return"
    /\ Len(box_metrics) + 1 < Len(flags.storage_boxes)
    /\ box_metrics' = Append(box_metrics, ForkMetrics)
    /\ NoLocals
    /\ listed' = NoListings
    /\ check_returncode' = None
    /\ pc' = "counters"
    /\ UNCHANGED <<settings, pure, reader, stats_cache, metrics, passes, calls, stats_queries,
                   metrics_before, pass_result, raised>>

\* _parse_metrics has returned for the last storage box, or for none:
\* get_metrics returns the list and refresh assigns it
ForkPublish ==
    /\ variant = "fork"
    /\ pc = "return"
    /\ Len(box_metrics) + 1 >= Len(flags.storage_boxes)
    /\ metrics' = Append(box_metrics, ForkMetrics)
    /\ pc' = "refreshed"
    /\ pass_result' = "ok"
    /\ UNCHANGED raised
    /\ UNCHANGED <<settings, box_metrics, pure, reader, stats_cache, passes, locals, calls, stats_queries,
                   metrics_before>>

(***************************************************************************)
(* A scrape: collect, called by a thread of the HTTP server.  The server   *)
(* is started by the main thread after the first refresh has returned and  *)
(* the collector has been registered.                                      *)
(***************************************************************************)
Serving == pc \notin {"exited", "crashed"} /\ (pc = "sleep" \/ passes >= 2)

\* the attributes of self.metrics that collect of exporter.py reads, one
\* evaluation of self.metrics each, in order
CollectFields ==
    <<"check_success", "locks_total", "total_size", "total_uncompressed_size",
      "compression_ratio", "total_blob_count", "total_snapshots_count", "clients">>

\* the value one of these reads gives on a ResticMetrics
ReadField(m, field) ==
    IF field \in {"check_success", "locks_total", "clients"} THEN m[field]
    ELSE m.global_stats[field]

\* what a scrape adds that takes every value from the ResticMetrics m
Emission(m) == [k \in DOMAIN CollectFields |-> ReadField(m, CollectFields[k])]

\* a scrape request arrives
CollectStart ==
    /\ Serving
    /\ collect_pos = 0
    /\ collect_pos' = 1
    /\ collect_out' = <<>>
    /\ collect_snapshot' = None
    /\ collect_result' = "none"
    /\ UNCHANGED <<settings, box_metrics, pure, stats_cache, metrics, pc, passes, locals, calls,
                   stats_queries, metrics_before, pass_result, raised>>

\* collect of exporter.py: its next read of self.metrics; None has no
\* attributes, and the read raises
CollectRead ==
    /\ variant = "exporter"
    /\ collect_pos >= 1
    /\ IF metrics = None
       THEN /\ collect_result' = "error"
            /\ collect_pos' = 0
            /\ UNCHANGED <<collect_out, collect_snapshot>>
       ELSE /\ collect_out' = Append(collect_out, ReadField(metrics, CollectFields[collect_pos]))
            /\ collect_snapshot' = IF collect_pos = 1 THEN metrics ELSE collect_snapshot
            /\ collect_pos' = IF collect_pos = Len(CollectFields) THEN 0 ELSE collect_pos + 1
            /\ collect_result' = IF collect_pos = Len(CollectFields) THEN "ok" ELSE "none"
    /\ UNCHANGED <<settings, box_metrics, pure, stats_cache, metrics, pc, passes, locals, calls,
                   stats_queries, metrics_before, pass_result, raised>>

\* collect of restic-exporter.py: the loop over self.metrics evaluates it once
ForkCollect ==
    /\ variant = "fork"
    /\ collect_pos >= 1
    /\ collect_out' = metrics
    /\ collect_snapshot' = metrics
    /\ collect_pos' = 0
    /\ collect_result' = "ok"
    /\ UNCHANGED <<settings, box_metrics, pure, stats_cache, metrics, pc, passes, locals, calls,
                   stats_queries, metrics_before, pass_result, raised>>

(***************************************************************************)
(* Specifications.                                                         *)
(***************************************************************************)
\* the process started with no storage boxes set
Init ==
    /\ (InitExporter \/ InitFork) /\ InitCommon
    /\ variant = "fork" => environ.RESTIC_STORAGEBOXES = <<>>
    /\ fn_args = None
    /\ fn_result = None

\* the process over MaxPasses refresh passes
Next ==
    \/ StartPass(MaxPasses)
    \/ Sleep
    \/ GetSnapshotsCounters(Listings)
    \/ GetLatestSnapshots(Listings)
    \/ BuildClient
    \/ GetStatsGlobal
    \/ GetCheck
    \/ GetLocks
    \/ Publish
    \/ ForkGetSnapshots(Listings)
    \/ ForkHistoryStep
    \/ ForkGetLatest(Listings)
    \/ ForkBuildClient
    \/ ForkGetCheck
    \/ ForkGetLocks
    \/ ForkPublish

Spec == Init /\ [][Next]_vars

\* the process for ever: every call of the main thread returns and its next
\* step is taken
NextLive ==
    \/ Next
    \/ StartPassAgain

SpecLive == Init /\ [][NextLive]_vars /\ WF_vars(NextLive)

\* restic-exporter.py started with storage boxes set
InitBoxes ==
    /\ InitFork /\ InitCommon
    /\ environ.RESTIC_STORAGEBOXES # <<>>
    /\ fn_args = None
    /\ fn_result = None

\* its first refresh pass: one call of _parse_metrics for every box
NextBoxes ==
    \/ StartPass(1)
    \/ Sleep
    \/ ForkGetSnapshots(Listings)
    \/ ForkHistoryStep
    \/ ForkGetLatest(Listings)
    \/ ForkBuildClient
    \/ ForkGetCheck
    \/ ForkGetLocks
    \/ ForkNextBox
    \/ ForkPublish

SpecBoxes == InitBoxes /\ [][NextBoxes]_vars

\* the first refresh pass, over longer listings
NextPass ==
    \/ StartPass(1)
    \/ Sleep
    \/ GetSnapshotsCounters(LongListings)
    \/ GetLatestSnapshots(LongListings)
    \/ BuildClient
    \/ GetStatsGlobal
    \/ GetCheck
    \/ GetLocks
    \/ Publish
    \/ ForkGetSnapshots(LongListings)
    \/ ForkHistoryStep
    \/ ForkGetLatest(LongListings)
    \/ ForkBuildClient
    \/ ForkGetCheck
    \/ ForkGetLocks
    \/ ForkPublish

SpecPass == Init /\ [][NextPass]_vars

\* the process and the scrapes of the HTTP server's threads
NextRead ==
    \/ StartPass(MaxPasses)
    \/ Sleep
    \/ GetSnapshotsCounters(Listings)
    \/ GetLatestSnapshots(Listings)
    \/ BuildClient
    \/ GetStatsGlobal
    \/ GetCheck
    \/ GetLocks
    \/ Publish
    \/ ForkGetSnapshots(Listings)
    \/ ForkHistoryStep
    \/ ForkGetLatest(Listings)
    \/ ForkBuildClient
    \/ ForkGetCheck
    \/ ForkGetLocks
    \/ ForkPublish
    \/ CollectStart
    \/ CollectRead
    \/ ForkCollect

SpecRead == Init /\ [][NextRead]_vars

\* one pass over listings whose records may lack keys
NextRaw ==
    \/ StartPass(1)
    \/ Sleep
    \/ GetSnapshotsCounters(RawListings)
    \/ GetLatestSnapshots(RawListings)
    \/ BuildClient
    \/ GetStatsGlobal
    \/ GetCheck
    \/ GetLocks
    \/ Publish
    \/ ForkGetSnapshots(RawListings)
    \/ ForkHistoryStep
    \/ ForkGetLatest(RawListings)
    \/ ForkBuildClient
    \/ ForkGetCheck
    \/ ForkGetLocks
    \/ ForkPublish

SpecRaw == Init /\ [][NextRaw]_vars

(***************************************************************************)
(* Functions of the program applied to given arguments: the collector is   *)
(* built with no feature disabled and runs no pass.                        *)
(***************************************************************************)
\* the (hostname, username, paths) of two snapshots
HashTuples ==
    [hostname : {"a", "ab"}, username : {"", "b"},
     paths : {<<"p">>, <<"p", "q">>, <<"p,q">>}]
HashArgs == [fn : {"calc_snapshot_hash"}, t1 : HashTuples, t2 : HashTuples]

\* calc_snapshot_hash of the variant under way
SnapshotHash(snapshot) ==
    IF variant = "exporter" THEN calc_snapshot_hash(snapshot)
    ELSE calc_snapshot_hash_fork(snapshot)

\* outputs of `restic list locks`: a lock id character, a character no lock
\* id has, and the line break
LockChars == {"a", "B", NL}
LockTexts == UNION {[1..n -> LockChars] : n \in 0..MaxText}
LocksArgs == [fn : {"get_locks"}, text_result : LockTexts]

\* get_locks of the variant under way
LocksOf(text_result) ==
    IF variant = "exporter" THEN get_locks(text_result)
    ELSE get_locks_fork(text_result)

\* the instants of a pass: some hours of Saturday 10 February 2024
TodayDay == 40
Todays == {TodayDay * Day + hour * Hour : hour \in {0, 3, 12}}

\* a snapshot tagged SLA taken at an instant
SlaSnapshot(ts) == [tags |-> <<"SLA">>, time |-> [wall |-> ts, off |-> 0]]

\* histories with one SLA snapshot on each of n consecutive days, the last of
\* them today or yesterday, each at the first or the last hour of its day
DailyHistories(n, last_day) ==
    {[i \in 1..n |-> SlaSnapshot((last_day - (n - i)) * Day + hours[i] * Hour)] :
        hours \in [1..n -> {0, 23}]}
\* a snapshot with a list of tags taken at the first hour of a day
TaggedSnapshot(tags, day) == [tags |-> tags, time |-> [wall |-> day * Day, off |-> 0]]

\* histories of snapshots with other tags, several tags, or SLA snapshots of
\* some days, weeks and months ago
TaggedHistories ==
    {<<TaggedSnapshot(<<"manual", "pre-restore">>, TodayDay - 1)>>,
     <<TaggedSnapshot(<<"manual">>, TodayDay - 1), TaggedSnapshot(<<"update">>, TodayDay - 1)>>,
     <<TaggedSnapshot(<<"x", "SLA">>, TodayDay)>>,
     <<TaggedSnapshot(<<"SLA", "manual">>, TodayDay), TaggedSnapshot(<<"SLA">>, TodayDay)>>,
     <<TaggedSnapshot(<<"SLA">>, TodayDay - 5)>>,
     <<TaggedSnapshot(<<"SLA">>, TodayDay - 20), TaggedSnapshot(<<"SLA">>, TodayDay - 19)>>,
     <<TaggedSnapshot(<<"SLA">>, 0), TaggedSnapshot(<<"SLA">>, TodayDay - 8),
       TaggedSnapshot(<<"SLA">>, TodayDay - 6)>>,
     \* as old as a window is long when the pass begins at noon
     <<SlaSnapshot(TodayDay * Day + 12 * Hour - 7 * Day)>>,
     <<SlaSnapshot(TodayDay * Day + 12 * Hour - 30 * Day + 1)>>,
     \* taken just after the pass began at noon
     <<SlaSnapshot(TodayDay * Day + 12 * Hour + 1)>>}

\* the histories of a run of SpecFn; a listing gives every snapshot its id
Histories ==
    {[i \in DOMAIN snapshots |-> WithKey(snapshots[i], "id", "h" \o ToString(i))] :
        snapshots \in {<<>>} \cup TaggedHistories
                      \cup UNION {DailyHistories(n, last_day) :
                                    n \in 1..MaxDays, last_day \in {TodayDay - 1, TodayDay}}}

\* the seconds the listing of the history and its stats queries may take
ClockDelays == {0, 2}


\* RESTIC_RETENTION_POLICY: none, a daily limit, or one limit for every category
EveryCategory(limit) ==
    [manual |-> limit, update |-> limit, hourly |-> limit, daily |-> limit,
     weekly |-> limit, monthly |-> limit, yearly |-> limit]
NoPolicy == [name \in {} |-> 0]
Policies ==
    {NoPolicy} \cup {[daily |-> limit] : limit \in 1..(MaxDays - 1)}
               \cup {EveryCategory(limit) : limit \in {-1, 2}}

\* BACKUP_TIMES: the default and two other settings
BackupTimes == {<<3>>, <<>>, <<0, 12>>}

\* the evaluations of a pass: the clock does not go back, the history holds
\* no snapshot taken after it was listed, and `restic stats --json <id>`
\* prints both totals or an object without them
RetentionArgs ==
    {args \in [fn : {"retention"}, today : Todays,
               current_date : {today + delay : today \in Todays, delay \in ClockDelays},
               snapshots : Histories,
               stats_data : {[id \in {"h" \o ToString(i) : i \in 1..(MaxDays + 1)} |-> answer] :
                                answer \in {[total_size |-> 11, total_file_count |-> 1],
                                            [snapshots_count |-> 1]}},
               retention_policy : Policies, backup_times : BackupTimes] :
        /\ args.current_date - args.today \in ClockDelays
        /\ \A i \in DOMAIN args.snapshots : args.snapshots[i].time.wall <= args.current_date}

\* the time strings given to _parse_timestamp
ParseArgs == [fn : {"parse_timestamp"},
              timestamp : {RecA1.time, RecB.time, BadTime, RegexTime}]

\* one more snapshot of the client of RecA1 and RecA2, taken at the instant
\* of RecA2
RecTie == [RecA1 EXCEPT !.id = "s4", !.short_id = "s4", !.time = RecA2.time]

\* the latest listings given to the deduplication loop: a listing names a
\* snapshot once
LatestArgs ==
    {args \in [fn : {"latest"},
               snapshots : SeqsUpTo({RecA1, RecA2, RecTie, RecB}, MaxDup + 1)] :
        \A i, j \in DOMAIN args.snapshots :
            args.snapshots[i].id = args.snapshots[j].id => i = j}

FnArgs == HashArgs \cup LocksArgs \cup RetentionArgs \cup ParseArgs \cup LatestArgs

InitFn ==
    /\ (InitExporter \/ InitFork) /\ InitCommon
    /\ \A name \in DOMAIN environ \ {"RESTIC_STORAGEBOXES"} : ~environ[name]
    /\ variant = "fork" => environ.RESTIC_STORAGEBOXES = <<>>
    /\ fn_args \in FnArgs
    /\ fn_args.fn \in {"retention", "parse_timestamp"} => variant = "fork"
    /\ fn_result = None

\* calc_snapshot_hash is called on each of the two snapshots
ApplyHash ==
    /\ fn_args.fn = "calc_snapshot_hash"
    /\ fn_result = None
    /\ fn_result' = [h1 |-> SnapshotHash(fn_args.t1), h2 |-> SnapshotHash(fn_args.t2)]
    /\ UNCHANGED <<settings, box_metrics, fn_args, stats_cache, metrics, pc, passes, locals, calls,
                   stats_queries, metrics_before, pass_result, raised, reader>>

\* get_locks counts the locks of an output
ApplyLocks ==
    /\ fn_args.fn = "get_locks"
    /\ fn_result = None
    /\ fn_result' = [locks |-> LocksOf(fn_args.text_result)]
    /\ UNCHANGED <<settings, box_metrics, fn_args, stats_cache, metrics, pc, passes, locals, calls,
                   stats_queries, metrics_before, pass_result, raised, reader>>

\* _parse_metrics evaluates the retention policy over a history
ApplyRetention ==
    /\ fn_args.fn = "retention"
    /\ fn_result = None
    /\ fn_result' = RetentionPolicy(fn_args.today, fn_args.current_date, fn_args.snapshots,
                                    fn_args.stats_data,
                                    fn_args.retention_policy, fn_args.backup_times)
    /\ UNCHANGED <<settings, box_metrics, fn_args, stats_cache, metrics, pc, passes, locals, calls,
                   stats_queries, metrics_before, pass_result, raised, reader>>

\* _parse_timestamp is called on a time string
ApplyParse ==
    /\ fn_args.fn = "parse_timestamp"
    /\ fn_result = None
    /\ fn_result' = ParseTimestampOutcome(fn_args.timestamp)
    /\ UNCHANGED <<settings, box_metrics, fn_args, stats_cache, metrics, pc, passes, locals, calls,
                   stats_queries, metrics_before, pass_result, raised, reader>>

\* the deduplication loop runs over a latest listing
ApplyLatest ==
    /\ fn_args.fn = "latest"
    /\ fn_result = None
    /\ fn_result' =
           IF variant = "exporter"
           THEN [latest_snapshots_dup |-> NormalizeAll(fn_args.snapshots),
                 latest_snapshots |-> LatestPerHash(NormalizeAll(fn_args.snapshots))]
           ELSE [latest_snapshots_dup |-> ForkTimestamps(ForkSnapshots(fn_args.snapshots)),
                 latest_snapshots |->
                     ForkLatestPerHash(ForkTimestamps(ForkSnapshots(fn_args.snapshots)))]
    /\ UNCHANGED <<settings, box_metrics, fn_args, stats_cache, metrics, pc, passes, locals, calls,
                   stats_queries, metrics_before, pass_result, raised, reader>>

NextFn ==
    \/ ApplyLatest
    \/ ApplyHash
    \/ ApplyLocks
    \/ ApplyRetention
    \/ ApplyParse

SpecFn == InitFn /\ [][NextFn]_vars


(***************************************************************************)
(* Properties.                                                             *)
(***************************************************************************)
IsExporter == variant = "exporter"

\* the value a pass that returned has built
Built == IF IsExporter THEN ResticMetrics ELSE Append(box_metrics, ForkMetrics)

\* nothing has been published yet
Unpublished == IF IsExporter THEN metrics = None ELSE metrics = <<>>

\* the per-snapshot stats queries
StatsCalls == {"stats " \o id : id \in Ids}
CountCalls(names) == Cardinality({i \in DOMAIN calls : calls[i] \in names})

\* C1: a pass that raised leaves self.metrics as it was when the pass began,
\* a pass that returned has replaced it by the value it built, and while a
\* pass runs the published value is still the one from before it.
C1_AtomicPublish ==
    /\ pass_result \in {"running", "failed"} => metrics = metrics_before
    /\ pass_result = "ok" => metrics = Built

\* C1: a second pass failed after several calls and the value the first
\* pass published is still there.
C1_Witness ==
    /\ IsExporter
    /\ pass_result = "failed"
    /\ passes = 2
    /\ Len(calls) >= 3
    /\ metrics # None
    /\ Len(metrics.clients) = 1

\* C2, as claimed: no per-snapshot stats query is issued twice for one id.
C2_QueriedAtMostOnce == \A id \in Ids : stats_queries[id] <= 1

\* C2, amended: once the stats of an id are in the cache (a query for it has
\* returned), no step issues a stats query for that id again.
C2_CachedNeverQueried ==
    [][\A id \in Ids : stats_cache[id] # None => stats_queries'[id] = stats_queries[id]]_vars

\* C2: the second pass has built the client of s1 from the cache: one query
\* since the start, none in this pass.
C2_Witness ==
    /\ IsExporter
    /\ passes = 2
    /\ pass_result = "ok"
    /\ stats_queries["s1"] = 1
    /\ CountCalls(StatsCalls) = 0
    /\ Len(clients) = 1
    /\ clients[1].stats = LegacyStats(StatsData("s1"))

\* the collaborator calls of a pass of exporter.py that ran to its end
ExpectedCalls ==
    2 + CountCalls(StatsCalls)
      + (IF flags.disable_global_stats THEN 0 ELSE 1)
      + (IF flags.disable_check THEN 0 ELSE 1)
      + (IF flags.disable_locks THEN 0 ELSE 1)

AllDisabled ==
    /\ flags.disable_check
    /\ flags.disable_global_stats
    /\ flags.disable_legacy_stats
    /\ flags.disable_locks

\* C3: in exporter.py a disabled check, locks or global stats signal is never
\* called for, in a pass that returns as in one that raises, and get_metrics
\* reports its sentinel (2, 0, every field -1); a pass that returned its
\* metrics with every optional feature disabled has issued exactly the two
\* listing calls, and every enabled signal has added exactly one call to the
\* calls of a pass that returned.
C3_Sentinels ==
    IsExporter =>
        /\ flags.disable_check =>
              /\ CountCalls({"check"}) = 0
              /\ pc \in {"locks", "return"} \/ pass_result = "ok" => check_success = 2
              /\ metrics # None => metrics.check_success = 2
        /\ flags.disable_locks =>
              /\ CountCalls({"list locks"}) = 0
              /\ pc = "return" \/ pass_result = "ok" => locks_total = 0
              /\ metrics # None => metrics.locks_total = 0
        /\ flags.disable_global_stats =>
              /\ CountCalls({"stats --mode raw-data"}) = 0
              /\ pc \in {"check", "locks", "return"} \/ pass_result = "ok"
                    => global_stats = SentinelGlobalStats
              /\ metrics # None => metrics.global_stats = SentinelGlobalStats
        /\ pass_result = "ok" /\ AllDisabled =>
              calls = <<"snapshots", "snapshots --latest 1">>
        /\ pass_result = "ok" =>
              /\ Len(calls) = ExpectedCalls
              /\ CountCalls({"check"}) = (IF flags.disable_check THEN 0 ELSE 1)
              /\ CountCalls({"list locks"}) = (IF flags.disable_locks THEN 0 ELSE 1)
              /\ CountCalls({"stats --mode raw-data"})
                    = (IF flags.disable_global_stats THEN 0 ELSE 1)

\* C3: a pass with only the check enabled has ended after three calls and
\* published the sentinels of the other two signals.
C3_Witness ==
    /\ IsExporter
    /\ ~flags.disable_check
    /\ flags.disable_global_stats /\ flags.disable_legacy_stats /\ flags.disable_locks
    /\ pass_result = "ok"
    /\ calls = <<"snapshots", "snapshots --latest 1", "check">>
    /\ metrics.locks_total = 0
    /\ metrics.global_stats = SentinelGlobalStats
    /\ metrics.check_success = 1

\* statistics are disabled: disable_legacy_stats of exporter.py,
\* disable_stats of restic-exporter.py
StatsDisabled ==
    IF IsExporter THEN flags.disable_legacy_stats ELSE flags.disable_stats

\* C4: with statistics disabled no per-snapshot stats query is ever issued,
\* and the stats of every client built are all -1.
C4_NoStatsQueries ==
    StatsDisabled =>
        /\ \A id \in Ids : stats_queries[id] = 0
        /\ \A i \in DOMAIN clients :
              IF IsExporter
              THEN latest_snapshots[i].v.stats = None => clients[i].stats = SentinelStats
              ELSE clients[i].size_total = -1 /\ clients[i].files_total = -1

\* C7: with EXIT_ON_ERROR set, a pass that raised has ended the process; with
\* it unset the process goes on with the value published before.
C7_ExitOnEveryFailure ==
    pass_result = "failed" =>
        IF environ.EXIT_ON_ERROR THEN pc = "exited"
        ELSE pc = "refreshed" /\ metrics = metrics_before

\* the values a scrape has emitted are those of the one published value it
\* read first
ReadOneSnapshot ==
    IF IsExporter THEN collect_out = Emission(collect_snapshot)
    ELSE collect_out = collect_snapshot

\* C5: a scrape that ran to its end while passes went on has emitted the
\* values of one published value only, never a mix of two.
C5_OneSnapshot == collect_result = "ok" => ReadOneSnapshot

\* C6: no scrape raises; one that comes before the first published value
\* ends without an error and without values.
C6_NoErrorBeforeFirstSuccess ==
    /\ collect_result # "error"
    /\ collect_result = "ok" /\ Unpublished => collect_out = <<>>

\* the number a timestamp stands for: exporter.py keeps numbers,
\* restic-exporter.py keeps the decimal text
RECURSIVE StrValue(_)
StrValue(str) ==
    IF str = <<>> THEN 0
    ELSE IF Head(str) = 45 THEN 0 - StrValue(Tail(str))
    ELSE 10 * StrValue(SubSeq(str, 1, Len(str) - 1)) + (str[Len(str)] - 48)
TimeValue(timestamp) == IF IsExporter THEN timestamp ELSE StrValue(timestamp)

\* the hashes of a listing, and the snapshots of the history with one hash
HashOf(snap) == IF IsExporter THEN calc_snapshot_hash(snap) ELSE snap.hash
HistoryCount(hash) ==
    Cardinality({i \in DOMAIN all_snapshots : HashOf(all_snapshots[i]) = hash})
PublishedClients == IF IsExporter THEN metrics.clients ELSE metrics[Len(metrics)].clients

\* C8: for every snapshot of the latest listing, the client a pass published
\* for its hash has a timestamp that is numerically no smaller, and that
\* timestamp is the one of a snapshot of the listing with that hash.
C8_LatestIsGreatest ==
    pass_result = "ok" =>
        /\ \A j \in DOMAIN latest_snapshots_dup :
              \E i \in DOMAIN PublishedClients :
                  /\ PublishedClients[i].snapshot_hash = latest_snapshots_dup[j].hash
                  /\ TimeValue(PublishedClients[i].timestamp)
                        >= TimeValue(latest_snapshots_dup[j].timestamp)
        /\ \A i \in DOMAIN PublishedClients :
              \E j \in DOMAIN latest_snapshots_dup :
                  /\ PublishedClients[i].snapshot_hash = latest_snapshots_dup[j].hash
                  /\ PublishedClients[i].timestamp = latest_snapshots_dup[j].timestamp

\* C9: the clients a pass published are one for each hash of its latest
\* listing, and the snapshots_total of each is the number of snapshots with
\* that hash in the history the same pass listed.
C9_OneClientPerHash ==
    pass_result = "ok" =>
        /\ {PublishedClients[i].snapshot_hash : i \in DOMAIN PublishedClients}
              = {latest_snapshots_dup[j].hash : j \in DOMAIN latest_snapshots_dup}
        /\ \A i, j \in DOMAIN PublishedClients :
              PublishedClients[i].snapshot_hash = PublishedClients[j].snapshot_hash => i = j
        /\ \A i \in DOMAIN PublishedClients :
              PublishedClients[i].snapshots_total
                  = HistoryCount(PublishedClients[i].snapshot_hash)

\* C9: two snapshots of one hash in both listings were published as one
\* client with a snapshots_total of 2.
C9_Witness ==
    /\ IsExporter
    /\ pass_result = "ok"
    /\ Len(latest_snapshots_dup) = 2
    /\ Len(all_snapshots) = 2
    /\ Len(metrics.clients) = 1
    /\ metrics.clients[1].snapshots_total = 2

\* the part of the history the counting loop has gone through: all of it
\* in exporter.py, the first history_pos snapshots in restic-exporter.py
Counted == IF IsExporter THEN all_snapshots ELSE SubSeq(all_snapshots, 1, history_pos)
RECURSIVE SumValues(_)
SumValues(dict) == IF dict = <<>> THEN 0 ELSE Head(dict).v + SumValues(Tail(dict))

\* C10: the keys of the counter are the hashes of the listing counted, each
\* once, and its values add up to the length of that listing.
C10_CounterOfListing ==
    /\ Keys(snap_total_counter) = {HashOf(Counted[i]) : i \in DOMAIN Counted}
    /\ \A i, j \in DOMAIN snap_total_counter :
          snap_total_counter[i].k = snap_total_counter[j].k => i = j
    /\ SumValues(snap_total_counter) = Len(Counted)

\* C10: a history of two snapshots with one hash was counted as one key of
\* value 2.
C10_Witness ==
    /\ Len(all_snapshots) = 2
    /\ Len(Counted) = 2
    /\ Len(snap_total_counter) = 1
    /\ snap_total_counter[1].v = 2

\* C11: two (hostname, username, paths) tuples have the same hash exactly
\* when they are the same tuple.
C11_HashInjective ==
    (fn_args # None /\ fn_args.fn = "calc_snapshot_hash" /\ fn_result # None) =>
        (fn_result.h1 = fn_result.h2 <=> fn_args.t1 = fn_args.t2)

\* a raw record lacks hostname, paths or time, or its time does not parse
Malformed(rec) ==
    \/ "hostname" \notin DOMAIN rec
    \/ "paths" \notin DOMAIN rec
    \/ "time" \notin DOMAIN rec
    \/ "wall" \notin DOMAIN rec.time

\* C12, as claimed: a pass that was published has listed no such record,
\* neither in the full history nor in the latest listing.
C12_MalformedFailsPass ==
    pass_result = "ok" =>
        /\ \A i \in DOMAIN all_snapshots : ~Malformed(all_snapshots[i])
        /\ \A i \in DOMAIN listed.latest : ~Malformed(listed.latest[i])

\* C12, amended: a pass whose latest listing holds such a record, or whose
\* full history holds a record without hostname or paths, fails and leaves
\* the published value alone; the time of a record of the full history is
\* read by restic-exporter.py only, where the pass is not published either.
C12_MalformedLatestFailsPass ==
    /\ (\E i \in DOMAIN listed.latest : Malformed(listed.latest[i]))
          => pass_result = "failed" /\ metrics = metrics_before
    /\ (\E i \in DOMAIN listed.history : HashRaises(listed.history[i]))
          => pass_result = "failed" /\ metrics = metrics_before
    /\ (~IsExporter /\ \E i \in DOMAIN listed.history : Malformed(listed.history[i]))
          => pass_result # "ok" /\ metrics = metrics_before

\* C12: the latest listing held a record with a time that does not parse,
\* after a full history that was read, and the pass failed.
C12_Witness ==
    /\ pass_result = "failed"
    /\ calls = <<"snapshots", "snapshots --latest 1">>
    /\ raised = "ValueError"
    /\ Len(listed.latest) = 2
    /\ listed.latest[2].time = BadTime
    /\ Unpublished

\* the text calc_snapshot_hash digests for a raw record with its required keys
RawHash(rec) == rec.hostname \o Get(rec, "username", "") \o JoinComma(rec.paths)

\* the listings of the pass hold no malformed record, and every hash of the
\* latest listing is one of the full history
ListedWell ==
    /\ \A i \in DOMAIN listed.history : ~Malformed(listed.history[i])
    /\ \A i \in DOMAIN listed.latest :
          /\ ~Malformed(listed.latest[i])
          /\ \E j \in DOMAIN listed.history :
                ~Malformed(listed.history[j])
                /\ RawHash(listed.history[j]) = RawHash(listed.latest[i])

\* C13: a pass over such listings fails on a command of the collaborator
\* only, whatever optional keys (username, tags, program_version) its
\* records lack; the client of a record listed alone has '' for each of the
\* username, the first tag and the version the record lacks.
C13_OptionalDefaulted ==
    /\ (ListedWell /\ pass_result = "failed") => raised = "Exception"
    /\ (pass_result = "ok" /\ Len(listed.latest) = 1) =>
          LET rec == listed.latest[1]
              client == PublishedClients[1]
          IN  /\ Len(PublishedClients) = 1
              /\ client.username = Get(rec, "username", "")
              /\ client.version = Get(rec, "program_version", "")
              /\ client.snapshot_tag
                    = (IF Get(rec, "tags", <<>>) = <<>> THEN "" ELSE rec.tags[1])

\* the calls of this pass that query the stats of one snapshot
StatsCallsFor(id) == CountCalls({"stats " \o id})

\* C14: in exporter.py the stats of a client whose record carries a summary
\* are those of the summary and no stats query is ever issued for it,
\* legacy stats disabled or not; the stats of a client whose record carries
\* none are the sentinel without a query when legacy stats are disabled, and
\* else the cached answer of the one query issued for its id.
C14_SummaryOrLegacy ==
    IsExporter =>
        /\ \A rec \in Universe : "summary" \in DOMAIN rec => stats_queries[rec.id] = 0
        /\ \A i \in DOMAIN clients :
              LET snap == latest_snapshots[i].v
                  rec == CHOOSE r \in Universe : r.id = snap.id
              IN  IF "summary" \in DOMAIN rec
                  THEN /\ clients[i].stats.total_size = rec.summary.total_bytes_processed
                       /\ clients[i].stats.total_file_count = rec.summary.total_files_processed
                       /\ clients[i].stats.duration
                             = rec.summary.backup_end - rec.summary.backup_start
                       /\ StatsCallsFor(snap.id) = 0
                  ELSE IF flags.disable_legacy_stats
                  THEN /\ clients[i].stats = SentinelStats
                       /\ stats_queries[snap.id] = 0
                  ELSE /\ clients[i].stats = LegacyStats(StatsData(snap.id))
                       /\ stats_cache[snap.id] = clients[i].stats
                       /\ stats_queries[snap.id] >= 1
                       /\ StatsCallsFor(snap.id) <= 1

\* C14: with legacy stats disabled a pass has published the client of a
\* record with a summary, with the sizes of the summary and without a query.
C14_Witness ==
    /\ IsExporter
    /\ flags.disable_legacy_stats
    /\ pass_result = "ok"
    /\ Len(metrics.clients) = 1
    /\ metrics.clients[1].stats.total_size = RecB.summary.total_bytes_processed
    /\ CountCalls(StatsCalls) = 0

PublishedCheck ==
    IF IsExporter THEN metrics.check_success ELSE metrics[Len(metrics)].check_success

\* C15: once the check command has exited in a pass, zero or not, the pass
\* goes on: it fails only on the locks command that follows, and otherwise
\* computes and publishes check_success 1 for exit code 0 and 0 for any other.
C15_CheckNeverAborts ==
    check_returncode # None =>
        LET expected == IF check_returncode.returncode = 0 THEN 1 ELSE 0
        IN  /\ pass_result \in {"running", "ok", "failed"}
            /\ pass_result = "failed" =>
                  raised = "Exception" /\ calls[Len(calls)] = "list locks"
            /\ pass_result \in {"running", "ok"} => check_success = expected
            /\ pass_result = "ok" => PublishedCheck = expected

\* C15: the check command exited non-zero and the pass was published with
\* check_success 0.
C15_Witness ==
    /\ check_returncode = [returncode |-> 1]
    /\ pass_result = "ok"
    /\ PublishedCheck = 0
    /\ Len(PublishedClients) = 1

\* C16: get_locks returns the number of lines of the output that consist of
\* one or more lowercase letters or digits and nothing else.
C16_CountsMatchingLines ==
    (fn_args # None /\ fn_args.fn = "get_locks" /\ fn_result # None) =>
        LET lines == SplitLines(fn_args.text_result)
        IN  fn_result.locks = Cardinality({i \in DOMAIN lines : MatchesLock(lines[i])})

\* C17: no step of the process, in a pass that succeeds, fails or runs with
\* statistics disabled, removes or changes an entry of the stats cache.
C17_CacheMonotonic ==
    [][\A id \in Ids : stats_cache[id] # None => stats_cache'[id] = stats_cache[id]]_vars

\* C17: a second pass has failed, and the cache holds, next to an entry this
\* pass wrote, an entry of the first pass that this pass did not query.
C17_Witness ==
    /\ passes = 2
    /\ pass_result = "failed"
    /\ \E id, other \in Ids :
          /\ stats_cache[id] # None
          /\ CountCalls({"stats " \o id}) = 0
          /\ stats_cache[other] # None
          /\ CountCalls({"stats " \o other}) = 1

\* C18: a step of a pass issues at most one collaborator call, and only
\* while the pass runs and nothing has failed; the step in which a command
\* fails ends the pass, and calls are issued again only by a next pass, which
\* starts only when no pass is under way.
C18_SequentialNoRetry ==
    [][/\ calls' # calls =>
             \/ calls' = <<>> /\ pass_result' = "none"
             \/ /\ pass_result = "running" /\ raised = "none"
                /\ Len(calls') = Len(calls) + 1
                /\ SubSeq(calls', 1, Len(calls)) = calls
       /\ raised' = "Exception" /\ raised # "Exception" =>
             /\ Len(calls') = Len(calls) + 1
             /\ pass_result' = "failed"
             /\ pc' \in {"refreshed", "exited"}
       /\ passes' # passes =>
             /\ passes' = passes + 1
             /\ pass_result = "none" /\ pass_result' = "running"
             /\ calls = <<>> /\ calls' = <<>>
       /\ pass_result' = "running" /\ pass_result # "running" => passes' = passes + 1
      ]_vars

\* C18: a stats query failed in the first pass and ended it; the second
\* pass has issued the query again, once, after its two listings.
C18_Witness ==
    /\ passes = 2
    /\ pass_result = "running"
    /\ \E id \in Ids :
          /\ stats_queries[id] = 2
          /\ CountCalls({"stats " \o id}) = 1
          /\ stats_cache[id] # None
    /\ Len(calls) >= 3

Categories == {"manual", "update", "hourly", "daily", "weekly", "monthly", "yearly"}

\* the retention evaluation has been applied to its arguments
Evaluated == fn_args # None /\ fn_args.fn = "retention" /\ fn_result # None

\* C19: over an empty history every category has expected 0 and is reported
\* satisfied, whatever the hour, the policy and the backup hours.
C19_EmptyHistorySatisfied ==
    (Evaluated /\ fn_args.snapshots = <<>>) =>
        \A category \in Categories :
            /\ fn_result[category].expected = 0
            /\ PolicyState(fn_result[category]) = 1

\* the days, from the epoch, on which the history given has a snapshot
SnapshotDays == {DayOf(fn_args.snapshots[i].time.wall) : i \in DOMAIN fn_args.snapshots}

\* one SLA snapshot on each of n days that have elapsed, n above the daily limit
DailyCase ==
    /\ Evaluated
    /\ "daily" \in DOMAIN fn_args.retention_policy
    /\ fn_args.retention_policy.daily > 0
    /\ Len(fn_args.snapshots) > fn_args.retention_policy.daily
    /\ Cardinality(SnapshotDays) = Len(fn_args.snapshots)
    /\ \A day \in SnapshotDays : day < DayOf(fn_args.today)
    /\ \A i \in DOMAIN fn_args.snapshots : fn_args.snapshots[i].tags = <<"SLA">>

\* C20: with one SLA snapshot on each of N elapsed days and a daily limit L
\* below N, the daily bucket has found N, expected L and is satisfied.
C20_DailyBucket ==
    DailyCase =>
        /\ fn_result.daily.found = Len(fn_args.snapshots)
        /\ fn_result.daily.expected = fn_args.retention_policy.daily
        /\ PolicyState(fn_result.daily) = 1

\* C20: three elapsed days with a snapshot, the oldest in the last hour of its
\* day, a daily limit of 2, evaluated in the first hour of today.
C20_Witness ==
    /\ DailyCase
    /\ Len(fn_args.snapshots) = 3
    /\ fn_args.retention_policy.daily = 2
    /\ HourOf(fn_args.snapshots[1].time.wall) = 23
    /\ HourOf(fn_args.today) = 0
    /\ fn_result.daily = [policy |-> 2, expected |-> 2, found |-> 3]

\* the time from the oldest snapshot of the history given to the instant of
\* the evaluation, and the period of a category
Elapsed ==
    LET instants == {fn_args.today}
                      \cup {fn_args.snapshots[i].time.wall - fn_args.snapshots[i].time.off :
                               i \in DOMAIN fn_args.snapshots}
    IN  fn_args.today - (CHOOSE oldest \in instants : \A ts \in instants : oldest <= ts)
Periodic == {"daily", "weekly", "monthly", "yearly"}
PeriodOf(category) ==
    CASE category = "daily" -> Day
      [] category = "weekly" -> 7 * Day
      [] category = "monthly" -> 30 * Day
      [] category = "yearly" -> 365 * Day
LimitOf(category) == Get(fn_args.retention_policy, category, 0)

\* C21: no category has a negative expected count, a category whose limit is
\* absent or not positive has expected 0, and daily, weekly, monthly and
\* yearly with a positive limit have the smaller of the limit and the
\* maximum count of their period.
C21_ExpectedFromLimit ==
    Evaluated =>
        \A category \in Categories :
            /\ fn_result[category].expected >= 0
            /\ LimitOf(category) <= 0 => fn_result[category].expected = 0
            /\ (category \in Periodic /\ LimitOf(category) > 0) =>
                  \/ fn_result[category].expected = LimitOf(category)
                  \/ /\ fn_result[category].expected < LimitOf(category)
                     /\ fn_result[category].expected
                           \in {Elapsed \div PeriodOf(category),
                                Elapsed \div PeriodOf(category) + 1}

\* C22: for daily, weekly, monthly and yearly with a positive limit, the
\* expected count is the smaller of the limit and the whole number of periods
\* elapsed since the oldest snapshot, and so 0 while less than one period has
\* elapsed.
C22_FloorOfElapsed ==
    Evaluated =>
        \A category \in Periodic :
            LimitOf(category) > 0 =>
                /\ fn_result[category].expected
                      = py_min(Elapsed \div PeriodOf(category), LimitOf(category))
                /\ Elapsed < PeriodOf(category) => fn_result[category].expected = 0

\* the snapshots of the history given that carry a tag of a set
TagsOf(snap) == {snap.tags[i] : i \in DOMAIN snap.tags}
Carrying(tags) ==
    {i \in DOMAIN fn_args.snapshots : TagsOf(fn_args.snapshots[i]) \cap tags # {}}
InstantOf(i) == fn_args.snapshots[i].time.wall - fn_args.snapshots[i].time.off

\* C23: the manual found count is the number of snapshots carrying manual or
\* pre-restore, the update found count the number carrying update or
\* sync-envs, a snapshot with several of these tags counting once.
C23_ManualUpdateFound ==
    Evaluated =>
        /\ fn_result.manual.found = Cardinality(Carrying({"manual", "pre-restore"}))
        /\ fn_result.update.found = Cardinality(Carrying({"update", "sync-envs"}))

\* C24: the hourly found count is the number of snapshots that carry the tag
\* SLA, at any position, and were taken today.
C24_HourlyFound ==
    Evaluated =>
        fn_result.hourly.found
            = Cardinality({i \in Carrying({"SLA"}) : DayOf(InstantOf(i)) = DayOf(fn_args.today)})

\* the week, month or year of an instant
BucketOf(category, ts) ==
    CASE category = "weekly" -> week_key(ts)
      [] category = "monthly" -> month_key(ts)
      [] category = "yearly" -> year_key(ts)

\* the SLA snapshots taken within the limit of a category, in periods, before
\* the instant the windows end at (current_date, the second clock reading)
InWindow(category) ==
    {i \in Carrying({"SLA"}) :
        /\ fn_args.current_date - LimitOf(category) * PeriodOf(category) <= InstantOf(i)
        /\ InstantOf(i) <= fn_args.current_date}

\* C25: the weekly, monthly and yearly found counts are the numbers of
\* distinct weeks, months and years that hold an SLA snapshot taken within
\* the window of as many periods as the limit of the category.
C25_BucketsFound ==
    Evaluated =>
        \A category \in {"weekly", "monthly", "yearly"} :
            fn_result[category].found
                = Cardinality({BucketOf(category, InstantOf(i)) : i \in InWindow(category)})

\* C26: _parse_timestamp returns the value of dateutil when dateutil reads
\* the string, the value of the regex and strptime strategy when only that
\* one reads it, and fails only when neither reads it.
C26_FirstSuccessWins ==
    (fn_args # None /\ fn_args.fn = "parse_timestamp" /\ fn_result # None) =>
        LET timestamp == fn_args.timestamp
        IN  IF "wall" \in DOMAIN timestamp
            THEN fn_result = [returned |-> PyStr(timestamp.wall - timestamp.off)]
            ELSE IF "strptime" \in DOMAIN timestamp
            THEN fn_result = [returned |-> PyStr(timestamp.strptime)]
            ELSE "raised" \in DOMAIN fn_result

\* C27: in restic-exporter.py started with NO_CHECK set, no pass calls the
\* check command and every published value reports check_success 2.
C27_ForkCheckDisabled ==
    (variant = "fork" /\ environ.NO_CHECK) =>
        /\ CountCalls({"check"}) = 0
        /\ \A i \in DOMAIN metrics : metrics[i].check_success = 2

\* C28: without EXIT_ON_ERROR a pass that failed, the first one included, is
\* followed by a next pass; and if from some time on no pass fails, passes
\* succeed and are published again and again.
C28_LoopNeverStops ==
    /\ []((~environ.EXIT_ON_ERROR /\ pass_result = "failed") => <>(pass_result = "running"))
    /\ (<>[](pass_result # "failed")) =>
            []<>(pass_result = "ok" /\ ~Unpublished)

\* the snapshot the deduplication loop kept for a hash
KeptFor(hash) == Lookup(fn_result.latest_snapshots, hash)

\* two snapshots of the latest listing, the first before the second, with
\* the same hash and the same timestamp
Tied(i, j) ==
    LET dup == fn_result.latest_snapshots_dup
    IN  /\ i < j
        /\ dup[i].id # dup[j].id
        /\ dup[i].hash = dup[j].hash
        /\ dup[i].timestamp = dup[j].timestamp

\* C29: of two latest-list snapshots with the same hash and the same
\* timestamp the later one in the list is never the one kept; when the two
\* are the whole list, the first one is kept.
C29_TieKeepsFirst ==
    (fn_args.fn = "latest" /\ fn_result # None) =>
        LET dup == fn_result.latest_snapshots_dup
        IN  \A i, j \in DOMAIN dup :
                Tied(i, j) =>
                    /\ KeptFor(dup[j].hash).id # dup[j].id
                    /\ Len(dup) = 2 => KeptFor(dup[i].hash).id = dup[i].id

C29_Witness ==
    /\ fn_args.fn = "latest"
    /\ fn_result # None
    /\ variant = "exporter"
    /\ fn_args.snapshots = <<RecTie, RecA2>>
    /\ Tied(1, 2)
    /\ KeptFor(fn_result.latest_snapshots_dup[1].hash).id = "s4"

\* the latest listing of the pass under way names a hash that its
\* full-history listing did not hold
HashAbsent ==
    \E j \in DOMAIN listed.latest :
        \A i \in DOMAIN listed.history :
            calc_snapshot_hash(listed.history[i]) # calc_snapshot_hash(listed.latest[j])

\* C30: in exporter.py a pass whose latest listing names a hash absent from
\* its full-history listing ends as failed with self.metrics as it was when
\* the pass began; every client of a published pass has a snapshots_total
\* of at least 1, the count of its hash in the history of that pass.
C30_AbsentHashFailsPass ==
    IsExporter =>
        /\ (pc = "refreshed" /\ HashAbsent) =>
                /\ pass_result = "failed"
                /\ metrics = metrics_before
        /\ pass_result = "ok" =>
                \A i \in DOMAIN metrics.clients :
                    /\ metrics.clients[i].snapshots_total >= 1
                    /\ metrics.clients[i].snapshots_total
                          = HistoryCount(metrics.clients[i].snapshot_hash)

\* C30: the second pass listed a history without the hash of its latest
\* listing, raised KeyError and left the value of the first pass published.
C30_Witness ==
    /\ IsExporter
    /\ passes = 2
    /\ pc = "refreshed"
    /\ Len(listed.history) >= 1
    /\ HashAbsent
    /\ raised = "KeyError"
    /\ pass_result = "failed"
    /\ metrics # None
    /\ Len(metrics.clients) >= 1

=============================================================================
